---- MODULE Spec2Model ----
(***************************************************************************)
(* Library management backend: book catalog, loan lifecycle, overdue       *)
(* sweep and system settings, as implemented by LibraryService and         *)
(* SettingsService on top of a SQLAlchemy session.                         *)
(*                                                                         *)
(* Time is counted in ticks, TicksPerDay ticks to a calendar day, so that  *)
(* an instant (datetime) and its calendar date (datetime.date()) differ.   *)
(* Money (the Float columns) is counted in hundredths: 0.1 is 10.          *)
(***************************************************************************)
EXTENDS Integers, Sequences, FiniteSets, TLC

VARIABLES now, users, books, loans, settings, sessions

vars == <<now, users, books, loans, settings, sessions>>

---------------------------------------------------------------------------
(* Bounds of the model *)

MaxTime == 6
MaxCopies == 2

(* Resolution of the clock *)
TicksPerDay == 2

(* Program constants *)
DefaultPickupWindowDays == 2
DefaultStandardLoanDays == 30
DefaultDailyFine == 10
HalfRate == 50
CooldownDays == 1
DefaultLimit == 100

None == 0 - 1

UserIds == {1, 2, 3, 4}
BookIds == {1}
Isbns == {1}
LoanIds == {1, 2}
(* Loan ids of the runs that also manage the catalog and the users *)
FirstLoan == {1}

(* Instants at which requests arrive: the start of day 0, the start of day 1, *)
(* the middle of day 1, and the horizon                                      *)
Instants == {0, TicksPerDay, TicksPerDay + 1, MaxTime}

(* Requests the environment makes *)
PickupChoices == {1}
LoanDayChoices == {1}
RateChoices == {0, HalfRate, 75}
SkipChoices == {0, 1}
LimitChoices == {1, DefaultLimit}
BanTargets == {1, 3}
DeleteTargets == {1, 3}

SettingsRequests ==
    [pickup_window_days : PickupChoices, standard_loan_days : LoanDayChoices,
     daily_fine_amount : RateChoices]

(* Requests that the SettingsUpdate schema turns down: one field just     *)
(* outside its bounds                                                      *)
InvalidSettingsRequests ==
    {[pickup_window_days |-> 0, standard_loan_days |-> 1, daily_fine_amount |-> 75],
     [pickup_window_days |-> 15, standard_loan_days |-> 1, daily_fine_amount |-> 75],
     [pickup_window_days |-> 1, standard_loan_days |-> 0, daily_fine_amount |-> 75],
     [pickup_window_days |-> 1, standard_loan_days |-> 121, daily_fine_amount |-> 75],
     [pickup_window_days |-> 1, standard_loan_days |-> 1, daily_fine_amount |-> 0 - 1],
     [pickup_window_days |-> 1, standard_loan_days |-> 1, daily_fine_amount |-> 10001]}

Holding == {"reserved", "active", "overdue"}

---------------------------------------------------------------------------
(* datetime helpers *)

Days(n) == n * TicksPerDay

DateOf(t) == t \div TicksPerDay

Max(S) == CHOOSE x \in S : \A y \in S : y <= x

Min(S) == CHOOSE x \in S : \A y \in S : x <= y

(* Integer primary key of a new row: SQLite rowid, one past the largest *)
NextId(ids) == IF ids = {} THEN 1 ELSE Max(ids) + 1

Last(s) == s[Len(s)]

DefaultSettings ==
    [pickup_window_days |-> DefaultPickupWindowDays,
     standard_loan_days |-> DefaultStandardLoanDays,
     daily_fine_amount |-> DefaultDailyFine]

(* The committed database as one value; handlers map it to the sequence of  *)
(* database states their commits leave behind.                              *)
Db == [users |-> users, books |-> books, loans |-> loans, settings |-> settings]

Failure(kind) == [res |-> kind, commits |-> << >>, id |-> 0]

---------------------------------------------------------------------------
(* SettingsService *)

ResetRates == {0, HalfRate}

(* get_settings that inserts a row of defaults whenever the rate is to be reset *)
get_settings_inserts_again(s) ==
    IF s.settings # << >>
    THEN LET row == s.settings[1] IN
         IF row.daily_fine_amount \in {0, HalfRate}
         THEN [s |-> [s EXCEPT !.settings = <<DefaultSettings>> \o @],
               committed |-> TRUE]
         ELSE [s |-> s, committed |-> FALSE]
    ELSE [s |-> [s EXCEPT !.settings = <<DefaultSettings>>], committed |-> TRUE]

(* get_settings: first row, a rate of 0.0 or 0.5 is overwritten by 0.1 and   *)
(* committed; no row: one is inserted with the column defaults and           *)
(* committed. s is the session's view, pending changes included, which a     *)
(* commit here writes out too.                                               *)
get_settings(s) ==
    IF s.settings # << >>
    THEN LET row == s.settings[1] IN
         IF row.daily_fine_amount \in ResetRates
         THEN [s |-> [s EXCEPT !.settings =
                        <<[row EXCEPT !.daily_fine_amount = DefaultDailyFine]>>],
               committed |-> TRUE]
         ELSE [s |-> s, committed |-> FALSE]
    ELSE [s |-> [s EXCEPT !.settings = <<DefaultSettings>>], committed |-> TRUE]

SettingsCommit(g) == IF g.committed THEN <<g.s>> ELSE << >>

---------------------------------------------------------------------------
(* Rows *)

NewLoan(user_id, book_id, st, t, deadline, start, due) ==
    [user_id |-> user_id, book_id |-> book_id, status |-> st,
     reservation_date |-> t, pickup_deadline |-> deadline,
     start_date |-> start, due_date |-> due,
     returned_at |-> None, canceled_at |-> None, fine_amount |-> 0]

(* book.available_copies += n; book.is_available = book.available_copies > 0 *)
AddCopies(book, n) ==
    [book EXCEPT !.available_copies = book.available_copies + n,
                 !.is_available = (book.available_copies + n > 0)]

(* ChangeCopies that never writes the count *)
ChangeCopiesSkipped(bks, book_id, n) == bks

(* book = db.query(Book)...first(); if book: ... *)
ChangeCopies(bks, book_id, n) ==
    IF book_id \in DOMAIN bks
    THEN [bks EXCEPT ![book_id] = AddCopies(bks[book_id], n)]
    ELSE bks

(* days_late = (now.date() - due_date.date()).days; if 0 then 1 *)
DaysLate(t, due) ==
    LET d == DateOf(t) - DateOf(due) IN IF d = 0 THEN 1 ELSE d

(* RecalcFine that leaves the stored fine alone *)
RecalcFineStale(t, due, rate, old) == old

(* The three copies of the fine rule; old is the stored fine_amount *)
ReturnFine(t, due, rate, old) ==
    IF DaysLate(t, due) > 0 THEN DaysLate(t, due) * rate ELSE old

(* SweepFine that adds the fine to the one already stored *)
SweepFineAccumulating(t, due, rate, old) ==
    IF DaysLate(t, due) > 0 THEN old + DaysLate(t, due) * rate ELSE old

SweepFine(t, due, rate, old) ==
    IF DaysLate(t, due) > 0 THEN DaysLate(t, due) * rate ELSE old

(* RecalcFine without the at-least-one-day rule *)
RecalcFineWholeDays(t, due, rate, old) ==
    IF DateOf(t) - DateOf(due) > 0 THEN (DateOf(t) - DateOf(due)) * rate ELSE old

RecalcFine(t, due, rate, old) ==
    IF DaysLate(t, due) > 0 THEN DaysLate(t, due) * rate ELSE old

---------------------------------------------------------------------------
(* LibraryService: loan lifecycle *)

(* RecentCancel that looks at the user's cancellations of any book *)
RecentCancelAnyBook(d, t, user_id, book_id) ==
    \E l \in DOMAIN d.loans :
        /\ d.loans[l].user_id = user_id
        /\ d.loans[l].status = "cancelled"
        /\ d.loans[l].canceled_at # None
        /\ d.loans[l].canceled_at > t - Days(CooldownDays)

RecentCancel(d, t, user_id, book_id) ==
    \E l \in DOMAIN d.loans :
        /\ d.loans[l].user_id = user_id
        /\ d.loans[l].book_id = book_id
        /\ d.loans[l].status = "cancelled"
        /\ d.loans[l].canceled_at # None
        /\ d.loans[l].canceled_at > t - Days(CooldownDays)

(* reserve_check without the ban check *)
reserve_check_ignores_ban(d, t, user_id, book_id) ==
    IF book_id \notin DOMAIN d.books THEN "not_found"
    ELSE IF d.books[book_id].available_copies <= 0 THEN "unavailable"
    ELSE IF user_id \notin DOMAIN d.users THEN "not_found"
    ELSE IF RecentCancel(d, t, user_id, book_id) THEN "invalid_state"
    ELSE "ok"

(* reserve_book up to the cooldown check: the failure, or "ok" *)
reserve_check(d, t, user_id, book_id) ==
    IF book_id \notin DOMAIN d.books THEN "not_found"
    ELSE IF d.books[book_id].available_copies <= 0 THEN "unavailable"
    ELSE IF user_id \notin DOMAIN d.users THEN "not_found"
    ELSE IF d.users[user_id].is_banned THEN "forbidden"
    ELSE IF RecentCancel(d, t, user_id, book_id) THEN "invalid_state"
    ELSE "ok"

(* reserve_book that reads the settings before it checks its guards *)
reserve_book_settings_first(d, t, user_id, book_id) ==
    LET g == get_settings(d)
        id == NextId(DOMAIN g.s.loans)
        deadline == t + Days(g.s.settings[1].pickup_window_days)
        loan == NewLoan(user_id, book_id, "reserved", t, deadline, None, None)
        s1 == [g.s EXCEPT !.loans = (id :> loan) @@ @,
                          !.books = ChangeCopies(@, book_id, 0 - 1)]
    IN IF reserve_check(d, t, user_id, book_id) # "ok"
       THEN [res |-> reserve_check(d, t, user_id, book_id),
             commits |-> SettingsCommit(g), id |-> 0]
       ELSE [res |-> "ok", commits |-> SettingsCommit(g) \o <<s1>>, id |-> id]

reserve_book(d, t, user_id, book_id) ==
    IF reserve_check(d, t, user_id, book_id) # "ok"
    THEN Failure(reserve_check(d, t, user_id, book_id))
    ELSE LET g == get_settings(d)
             id == NextId(DOMAIN g.s.loans)
             deadline == t + Days(g.s.settings[1].pickup_window_days)
             loan == NewLoan(user_id, book_id, "reserved", t, deadline, None, None)
             s1 == [g.s EXCEPT !.loans = (id :> loan) @@ @,
                               !.books = ChangeCopies(@, book_id, 0 - 1)]
         IN [res |-> "ok", commits |-> SettingsCommit(g) \o <<s1>>, id |-> id]

(* confirm_pickup for which the deadline instant itself is already too late *)
confirm_pickup_before_deadline(d, t, loan_id) ==
    IF loan_id \notin DOMAIN d.loans THEN Failure("not_found")
    ELSE LET loan == d.loans[loan_id] IN
         IF loan.status # "reserved" THEN Failure("invalid_state")
         ELSE IF loan.pickup_deadline # None /\ t >= loan.pickup_deadline
         THEN LET s1 == [d EXCEPT !.loans[loan_id].status = "expired",
                                  !.books = ChangeCopies(@, loan.book_id, 1)]
              IN [res |-> "expired", commits |-> <<s1>>, id |-> loan_id]
         ELSE LET g == get_settings(d)
                  due == t + Days(g.s.settings[1].standard_loan_days)
                  s1 == [g.s EXCEPT !.loans[loan_id] =
                            [@ EXCEPT !.status = "active", !.start_date = t,
                                      !.due_date = due]]
              IN [res |-> "ok", commits |-> SettingsCommit(g) \o <<s1>>,
                  id |-> loan_id]

(* confirm_pickup that commits the EXPIRED status before it releases the copy *)
confirm_pickup_two_commits(d, t, loan_id) ==
    IF loan_id \notin DOMAIN d.loans THEN Failure("not_found")
    ELSE LET loan == d.loans[loan_id] IN
         IF loan.status # "reserved" THEN Failure("invalid_state")
         ELSE IF loan.pickup_deadline # None /\ t > loan.pickup_deadline
         THEN LET s0 == [d EXCEPT !.loans[loan_id].status = "expired"]
                  s1 == [s0 EXCEPT !.books = ChangeCopies(@, loan.book_id, 1)]
              IN [res |-> "expired", commits |-> <<s0, s1>>, id |-> loan_id]
         ELSE LET g == get_settings(d)
                  due == t + Days(g.s.settings[1].standard_loan_days)
                  s1 == [g.s EXCEPT !.loans[loan_id] =
                            [@ EXCEPT !.status = "active", !.start_date = t,
                                      !.due_date = due]]
              IN [res |-> "ok", commits |-> SettingsCommit(g) \o <<s1>>,
                  id |-> loan_id]

confirm_pickup(d, t, loan_id) ==
    IF loan_id \notin DOMAIN d.loans THEN Failure("not_found")
    ELSE LET loan == d.loans[loan_id] IN
         IF loan.status # "reserved" THEN Failure("invalid_state")
         ELSE IF loan.pickup_deadline # None /\ t > loan.pickup_deadline
         THEN LET s1 == [d EXCEPT !.loans[loan_id].status = "expired",
                                  !.books = ChangeCopies(@, loan.book_id, 1)]
              IN [res |-> "expired", commits |-> <<s1>>, id |-> loan_id]
         ELSE LET g == get_settings(d)
                  due == t + Days(g.s.settings[1].standard_loan_days)
                  s1 == [g.s EXCEPT !.loans[loan_id] =
                            [@ EXCEPT !.status = "active", !.start_date = t,
                                      !.due_date = due]]
              IN [res |-> "ok", commits |-> SettingsCommit(g) \o <<s1>>,
                  id |-> loan_id]

(* assign_loan without the check of the target user's role *)
assign_loan_any_role(d, t, user_id, book_id) ==
    IF user_id \notin DOMAIN d.users THEN Failure("not_found")
    ELSE IF d.users[user_id].is_banned THEN Failure("forbidden")
    ELSE IF book_id \notin DOMAIN d.books THEN Failure("not_found")
    ELSE IF d.books[book_id].available_copies <= 0 THEN Failure("unavailable")
    ELSE LET g == get_settings(d)
             id == NextId(DOMAIN g.s.loans)
             due == t + Days(g.s.settings[1].standard_loan_days)
             loan == NewLoan(user_id, book_id, "active", t, None, t, due)
             s1 == [g.s EXCEPT !.loans = (id :> loan) @@ @,
                               !.books = ChangeCopies(@, book_id, 0 - 1)]
         IN [res |-> "ok", commits |-> SettingsCommit(g) \o <<s1>>, id |-> id]

assign_loan(d, t, user_id, book_id) ==
    IF user_id \notin DOMAIN d.users THEN Failure("not_found")
    ELSE IF d.users[user_id].role # "member" THEN Failure("not_member")
    ELSE IF d.users[user_id].is_banned THEN Failure("forbidden")
    ELSE IF book_id \notin DOMAIN d.books THEN Failure("not_found")
    ELSE IF d.books[book_id].available_copies <= 0 THEN Failure("unavailable")
    ELSE LET g == get_settings(d)
             id == NextId(DOMAIN g.s.loans)
             due == t + Days(g.s.settings[1].standard_loan_days)
             loan == NewLoan(user_id, book_id, "active", t, None, t, due)
             s1 == [g.s EXCEPT !.loans = (id :> loan) @@ @,
                               !.books = ChangeCopies(@, book_id, 0 - 1)]
         IN [res |-> "ok", commits |-> SettingsCommit(g) \o <<s1>>, id |-> id]

(* IsLate that counts the due instant itself as late *)
IsLateOrDue(due, t) == due # None /\ t >= due

(* line 348: if loan.due_date and now > loan.due_date *)
IsLate(due, t) == due # None /\ t > due

(* return_book that does not give the copy back *)
return_book_keeps_copy(d, t, loan_id) ==
    IF loan_id \notin DOMAIN d.loans THEN Failure("not_found")
    ELSE LET loan == d.loans[loan_id] IN
         IF loan.status \notin {"active", "overdue"} THEN Failure("invalid_state")
         ELSE LET late == IsLate(loan.due_date, t)
                  g == IF late THEN get_settings(d)
                       ELSE [s |-> d, committed |-> FALSE]
                  fine == IF late
                          THEN ReturnFine(t, loan.due_date,
                                          g.s.settings[1].daily_fine_amount,
                                          loan.fine_amount)
                          ELSE loan.fine_amount
                  s1 == [g.s EXCEPT !.loans[loan_id] =
                            [@ EXCEPT !.fine_amount = fine,
                                      !.status = "returned",
                                      !.returned_at = t]]
              IN [res |-> "ok", commits |-> SettingsCommit(g) \o <<s1>>,
                  id |-> loan_id]

(* return_book that also takes back a loan that is only RESERVED *)
return_book_reserved_too(d, t, loan_id) ==
    IF loan_id \notin DOMAIN d.loans THEN Failure("not_found")
    ELSE LET loan == d.loans[loan_id] IN
         IF loan.status \notin {"reserved", "active", "overdue"}
         THEN Failure("invalid_state")
         ELSE LET s1 == [d EXCEPT !.loans[loan_id] =
                            [@ EXCEPT !.status = "returned",
                                      !.returned_at = t],
                                  !.books = ChangeCopies(@, loan.book_id, 1)]
              IN [res |-> "ok", commits |-> <<s1>>, id |-> loan_id]

return_book(d, t, loan_id) ==
    IF loan_id \notin DOMAIN d.loans THEN Failure("not_found")
    ELSE LET loan == d.loans[loan_id] IN
         IF loan.status \notin {"active", "overdue"} THEN Failure("invalid_state")
         ELSE LET late == IsLate(loan.due_date, t)
                  g == IF late THEN get_settings(d)
                       ELSE [s |-> d, committed |-> FALSE]
                  fine == IF late
                          THEN ReturnFine(t, loan.due_date,
                                          g.s.settings[1].daily_fine_amount,
                                          loan.fine_amount)
                          ELSE loan.fine_amount
                  s1 == [g.s EXCEPT !.loans[loan_id] =
                            [@ EXCEPT !.fine_amount = fine,
                                      !.status = "returned",
                                      !.returned_at = t],
                                    !.books = ChangeCopies(@, loan.book_id, 1)]
              IN [res |-> "ok", commits |-> SettingsCommit(g) \o <<s1>>,
                  id |-> loan_id]

(* cancel_reservation without the ownership check *)
cancel_reservation_any_user(d, t, user_id, loan_id) ==
    IF loan_id \notin DOMAIN d.loans THEN Failure("not_found")
    ELSE LET loan == d.loans[loan_id] IN
         IF loan.status # "reserved" THEN Failure("invalid_state")
         ELSE LET s1 == [d EXCEPT !.loans[loan_id] =
                            [@ EXCEPT !.status = "cancelled",
                                      !.canceled_at = t],
                                  !.books = ChangeCopies(@, loan.book_id, 1)]
              IN [res |-> "ok", commits |-> <<s1>>, id |-> loan_id]

(* cancel_reservation that does not stamp canceled_at *)
cancel_reservation_unstamped(d, t, user_id, loan_id) ==
    IF loan_id \notin DOMAIN d.loans THEN Failure("not_found")
    ELSE LET loan == d.loans[loan_id] IN
         IF loan.user_id # user_id THEN Failure("forbidden")
         ELSE IF loan.status # "reserved" THEN Failure("invalid_state")
         ELSE LET s1 == [d EXCEPT !.loans[loan_id].status = "cancelled",
                                  !.books = ChangeCopies(@, loan.book_id, 1)]
              IN [res |-> "ok", commits |-> <<s1>>, id |-> loan_id]

(* cancel_reservation that refuses a reservation past its pickup deadline *)
cancel_reservation_in_window(d, t, user_id, loan_id) ==
    IF loan_id \notin DOMAIN d.loans THEN Failure("not_found")
    ELSE LET loan == d.loans[loan_id] IN
         IF loan.user_id # user_id THEN Failure("forbidden")
         ELSE IF loan.status # "reserved" THEN Failure("invalid_state")
         ELSE IF t > loan.pickup_deadline THEN Failure("invalid_state")
         ELSE LET s1 == [d EXCEPT !.loans[loan_id] =
                            [@ EXCEPT !.status = "cancelled",
                                      !.canceled_at = t],
                                  !.books = ChangeCopies(@, loan.book_id, 1)]
              IN [res |-> "ok", commits |-> <<s1>>, id |-> loan_id]

cancel_reservation(d, t, user_id, loan_id) ==
    IF loan_id \notin DOMAIN d.loans THEN Failure("not_found")
    ELSE LET loan == d.loans[loan_id] IN
         IF loan.user_id # user_id THEN Failure("forbidden")
         ELSE IF loan.status # "reserved" THEN Failure("invalid_state")
         ELSE LET s1 == [d EXCEPT !.loans[loan_id] =
                            [@ EXCEPT !.status = "cancelled",
                                      !.canceled_at = t],
                                  !.books = ChangeCopies(@, loan.book_id, 1)]
              IN [res |-> "ok", commits |-> <<s1>>, id |-> loan_id]

---------------------------------------------------------------------------
(* LibraryService: listings and the overdue sweep *)

(* PastDue that counts the instant of the due date itself as late *)
PastDueFromDueDate(loan, t) ==
    /\ loan.status \in {"active", "overdue"}
    /\ loan.due_date # None
    /\ t >= loan.due_date

PastDue(loan, t) ==
    /\ loan.status \in {"active", "overdue"}
    /\ loan.due_date # None
    /\ t > loan.due_date

(* _mark_overdue over the listed loans, in list order. The first late loan  *)
(* is set OVERDUE before the settings are read, so a commit inside          *)
(* get_settings writes that status out ahead of its fine.                   *)
mark_overdue(s, t, ids) ==
    LET late == {l \in ids : PastDue(s.loans[l], t)} IN
    IF late = {} THEN [s |-> s, commits |-> << >>]
    ELSE LET first == Min(late)
             g == get_settings([s EXCEPT !.loans[first].status = "overdue"])
             rate == g.s.settings[1].daily_fine_amount
             swept == [l \in DOMAIN s.loans |->
                         IF l \in late
                         THEN [s.loans[l] EXCEPT
                                 !.status = "overdue",
                                 !.fine_amount = SweepFine(t, s.loans[l].due_date,
                                                           rate, @)]
                         ELSE s.loans[l]]
         IN [s |-> [g.s EXCEPT !.loans = swept], commits |-> SettingsCommit(g)]

get_user_loans(d, t, user_id) ==
    LET m == mark_overdue(d, t, {l \in DOMAIN d.loans : d.loans[l].user_id = user_id})
    IN [res |-> "ok", commits |-> m.commits \o <<m.s>>, id |-> 0]

(* query.offset(skip).limit(limit): rows in primary-key order *)
Page(ids, skip, limit) ==
    {l \in ids : LET rank == Cardinality({k \in ids : k < l})
                 IN rank >= skip /\ rank < skip + limit}

get_all_loans(d, t, skip, limit) ==
    LET m == mark_overdue(d, t, Page(DOMAIN d.loans, skip, limit))
    IN [res |-> "ok", commits |-> m.commits \o <<m.s>>, id |-> 0]

---------------------------------------------------------------------------
(* SettingsService.update_settings and the SettingsUpdate schema *)

(* SettingsUpdateValid of a schema without bounds *)
SettingsUpdateUnbounded(u) == TRUE

SettingsUpdateValid(u) ==
    /\ u.pickup_window_days >= 1 /\ u.pickup_window_days <= 14
    /\ u.standard_loan_days >= 1 /\ u.standard_loan_days <= 120
    /\ u.daily_fine_amount >= 0 /\ u.daily_fine_amount <= 10000

(* recalculate_overdue_fines without the filter on the loan's status *)
recalculate_all_past_due(s, t) ==
    [s EXCEPT !.loans =
        [l \in DOMAIN s.loans |->
            LET loan == s.loans[l] IN
            IF /\ loan.due_date # None
               /\ loan.due_date < t
               /\ DaysLate(t, loan.due_date) > 0
            THEN [loan EXCEPT
                    !.fine_amount = RecalcFine(t, loan.due_date,
                                               s.settings[1].daily_fine_amount, @),
                    !.status = "overdue"]
            ELSE loan]]

recalculate_overdue_fines(s, t) ==
    [s EXCEPT !.loans =
        [l \in DOMAIN s.loans |->
            LET loan == s.loans[l] IN
            IF /\ loan.status \in {"active", "overdue"}
               /\ loan.due_date # None
               /\ loan.due_date < t
               /\ DaysLate(t, loan.due_date) > 0
            THEN [loan EXCEPT
                    !.fine_amount = RecalcFine(t, loan.due_date,
                                               s.settings[1].daily_fine_amount, @),
                    !.status = "overdue"]
            ELSE loan]]

(* update_settings that also moves the due dates of the loans that are out *)
(* to the new loan length                                                  *)
update_settings_redates(d, t, updates) ==
    IF ~SettingsUpdateValid(updates) THEN Failure("validation_error")
    ELSE LET g == get_settings(d)
             redated == [l \in DOMAIN g.s.loans |->
                           LET loan == g.s.loans[l] IN
                           IF loan.status \in {"active", "overdue"}
                           THEN [loan EXCEPT !.due_date =
                                   loan.start_date + Days(updates.standard_loan_days)]
                           ELSE loan]
             s1 == [g.s EXCEPT !.settings = <<updates>>, !.loans = redated]
             s2 == recalculate_overdue_fines(s1, t)
         IN [res |-> "ok", commits |-> SettingsCommit(g) \o <<s1, s2>>, id |-> 0]

update_settings(d, t, updates) ==
    IF ~SettingsUpdateValid(updates) THEN Failure("validation_error")
    ELSE LET g == get_settings(d)
             s1 == [g.s EXCEPT !.settings = <<updates>>]
             s2 == recalculate_overdue_fines(s1, t)
         IN [res |-> "ok", commits |-> SettingsCommit(g) \o <<s1, s2>>, id |-> 0]

---------------------------------------------------------------------------
(* LibraryService: catalog *)

Unset == 0 - 2

(* Stock of the book the lifecycle runs start with: the last copy, or several *)
InitialCopies == {1, MaxCopies}

CreateRequests ==
    [isbn : Isbns, total_copies : 1 .. MaxCopies, available_copies : 0 .. MaxCopies]

UpdateRequests ==
    [isbn : Isbns \cup {Unset}, total_copies : (1 .. MaxCopies) \cup {Unset},
     available_copies : (0 .. MaxCopies) \cup {Unset}]

(* IsbnTaken with no unique index on books.isbn *)
IsbnNeverTaken(bks, isbn, except) == FALSE

IsbnTaken(bks, isbn, except) ==
    \E b \in DOMAIN bks \ except : bks[b].isbn = isbn

(* create_book: available_copies is capped at total_copies; is_available    *)
(* keeps its column default                                                 *)
create_book(d, data) ==
    IF IsbnTaken(d.books, data.isbn, {}) THEN Failure("conflict")
    ELSE LET id == NextId(DOMAIN d.books)
             avail == IF data.available_copies < data.total_copies
                      THEN data.available_copies ELSE data.total_copies
             book == [isbn |-> data.isbn, total_copies |-> data.total_copies,
                      available_copies |-> avail, is_available |-> TRUE]
             s1 == [d EXCEPT !.books = (id :> book) @@ @]
         IN [res |-> "ok", commits |-> <<s1>>, id |-> id]

(* update_book: the fields the request sets, then the clamp *)
update_book(d, book_id, data) ==
    IF book_id \notin DOMAIN d.books THEN Failure("not_found")
    ELSE LET old == d.books[book_id]
             set == [isbn |-> IF data.isbn = Unset THEN old.isbn ELSE data.isbn,
                     total_copies |-> IF data.total_copies = Unset
                                      THEN old.total_copies ELSE data.total_copies,
                     available_copies |-> IF data.available_copies = Unset
                                          THEN old.available_copies
                                          ELSE data.available_copies,
                     is_available |-> old.is_available]
             touched == data.total_copies # Unset \/ data.available_copies # Unset
             book == IF touched /\ set.available_copies > set.total_copies
                     THEN [set EXCEPT !.available_copies = set.total_copies]
                     ELSE set
         IN IF IsbnTaken(d.books, book.isbn, {book_id}) THEN Failure("error")
            ELSE [res |-> "ok", commits |-> <<[d EXCEPT !.books[book_id] = book]>>,
                  id |-> book_id]

Restrict(f, keep) == [x \in keep |-> f[x]]

(* delete_book without the cascade to the book's loans *)
delete_book_keeps_loans(d, book_id) ==
    IF book_id \notin DOMAIN d.books THEN Failure("not_found")
    ELSE LET s1 == [d EXCEPT !.books = Restrict(@, DOMAIN @ \ {book_id})]
         IN [res |-> "ok", commits |-> <<s1>>, id |-> book_id]

(* delete_book: the ORM cascade deletes the book's loans *)
delete_book(d, book_id) ==
    IF book_id \notin DOMAIN d.books THEN Failure("not_found")
    ELSE LET s1 == [d EXCEPT
                      !.books = Restrict(@, DOMAIN @ \ {book_id}),
                      !.loans = Restrict(@, {l \in DOMAIN @ : @[l].book_id # book_id})]
         IN [res |-> "ok", commits |-> <<s1>>, id |-> book_id]

---------------------------------------------------------------------------
(* api/admin.py and api/users.py: user management *)

(* delete_user: the ORM cascade deletes the user's loans, books untouched *)
delete_user(d, user_id) ==
    IF user_id \notin DOMAIN d.users THEN Failure("not_found")
    ELSE IF d.users[user_id].role = "admin" THEN Failure("bad_request")
    ELSE LET s1 == [d EXCEPT
                      !.users = Restrict(@, DOMAIN @ \ {user_id}),
                      !.loans = Restrict(@, {l \in DOMAIN @ : @[l].user_id # user_id})]
         IN [res |-> "ok", commits |-> <<s1>>, id |-> user_id]

(* ban_user without the check of the target's role *)
ban_user_any_role(d, user_id) ==
    IF user_id \notin DOMAIN d.users THEN Failure("not_found")
    ELSE [res |-> "ok", commits |-> <<[d EXCEPT !.users[user_id].is_banned = TRUE]>>,
          id |-> user_id]

ban_user(d, user_id) ==
    IF user_id \notin DOMAIN d.users THEN Failure("not_found")
    ELSE IF d.users[user_id].role = "admin" THEN Failure("bad_request")
    ELSE [res |-> "ok", commits |-> <<[d EXCEPT !.users[user_id].is_banned = TRUE]>>,
          id |-> user_id]

unban_user(d, user_id) ==
    IF user_id \notin DOMAIN d.users THEN Failure("not_found")
    ELSE [res |-> "ok", commits |-> <<[d EXCEPT !.users[user_id].is_banned = FALSE]>>,
          id |-> user_id]

---------------------------------------------------------------------------
(* Requests. A handler maps the committed database to its response and to *)
(* the database states its commits leave; the request installs the last.  *)

CopiesOf(d) == [b \in DOMAIN d.books |-> d.books[b].available_copies]

CommitLog(d0, commits) ==
    [i \in 1 .. Len(commits) |->
        LET prev == IF i = 1 THEN d0 ELSE commits[i - 1] IN
        [loans |-> prev.loans # commits[i].loans,
         copies |-> CopiesOf(prev) # CopiesOf(commits[i])]]

Final(d0, r) == IF r.commits = << >> THEN d0 ELSE Last(r.commits)

Respond(r) ==
    LET fin == Final(Db, r) IN
    /\ users' = fin.users
    /\ books' = fin.books
    /\ loans' = fin.loans
    /\ settings' = fin.settings
    /\ now' = now
    /\ UNCHANGED sessions

Members == {u \in DOMAIN users : users[u].role = "member"}

StaffOnDuty == {c \in DOMAIN users : users[c].role \in {"librarian", "admin"}} # {}

AdminOnDuty == {c \in DOMAIN users : users[c].role = "admin"} # {}

InitialUsers ==
    (1 :> [role |-> "admin", is_banned |-> FALSE])
    @@ (2 :> [role |-> "member", is_banned |-> FALSE])
    @@ (3 :> [role |-> "member", is_banned |-> FALSE])
    @@ (4 :> [role |-> "librarian", is_banned |-> FALSE])

EmptyDb == [users |-> InitialUsers, books |-> << >>, loans |-> << >>,
            settings |-> << >>]

(* The database after startup: the accounts, no book, no loan, no settings *)
InitAll ==
    /\ now = 0
    /\ users = InitialUsers
    /\ books = << >>
    /\ loans = << >>
    /\ settings = << >>
    /\ sessions = << >>

(* The database once the catalog holds a book, as create_book leaves it *)
Init ==
    /\ now = 0
    /\ users = InitialUsers
    /\ \E data \in {c \in CreateRequests : /\ c.total_copies \in InitialCopies
                                            /\ c.available_copies = c.total_copies} :
            books = Final(EmptyDb, create_book(EmptyDb, data)).books
    /\ loans = << >>
    /\ settings = << >>
    /\ sessions = << >>

(* The clock moves to the next instant at which requests arrive *)
Tick ==
    /\ \E t \in Instants : t > now
    /\ now' = Min({t \in Instants : t > now})
    /\ UNCHANGED <<users, books, loans, settings, sessions>>

Reserve(ids) ==
    \E u \in Members, b \in BookIds :
        LET r == reserve_book(Db, now, u, b) IN
        /\ r.res = "ok" => r.id \in ids
        /\ Respond(r)

AssignLoan(ids) ==
    /\ StaffOnDuty
    /\ \E u \in UserIds, b \in BookIds :
        LET r == assign_loan(Db, now, u, b) IN
        /\ r.res = "ok" => r.id \in ids
        /\ Respond(r)

ConfirmPickup ==
    /\ StaffOnDuty
    /\ \E l \in LoanIds : Respond(confirm_pickup(Db, now, l))

ReturnBook ==
    /\ StaffOnDuty
    /\ \E l \in LoanIds : Respond(return_book(Db, now, l))

CancelReservation ==
    \E u \in Members, l \in LoanIds : Respond(cancel_reservation(Db, now, u, l))

ListUserLoans ==
    \E u \in DOMAIN users : Respond(get_user_loans(Db, now, u))

ListAllLoans ==
    /\ StaffOnDuty
    /\ \E skip \in SkipChoices, limit \in LimitChoices :
        Respond(get_all_loans(Db, now, skip, limit))

(* GET /api/settings: the read itself may commit *)
GetSettings ==
    /\ StaffOnDuty
    /\ Respond([res |-> "ok", commits |-> SettingsCommit(get_settings(Db)), id |-> 0])

UpdateSettings ==
    /\ StaffOnDuty
    /\ \E upd \in SettingsRequests \cup InvalidSettingsRequests :
        Respond(update_settings(Db, now, upd))

CreateBook ==
    /\ StaffOnDuty
    /\ \E data \in CreateRequests :
        LET r == create_book(Db, data) IN
        /\ r.res = "ok" => r.id \in BookIds
        /\ Respond(r)

UpdateBook ==
    /\ StaffOnDuty
    /\ \E b \in BookIds, data \in UpdateRequests : Respond(update_book(Db, b, data))

DeleteBook ==
    /\ StaffOnDuty
    /\ \E b \in BookIds : Respond(delete_book(Db, b))

DeleteUser ==
    /\ AdminOnDuty
    /\ \E u \in DeleteTargets : Respond(delete_user(Db, u))

BanUser ==
    /\ StaffOnDuty
    /\ \E u \in BanTargets : Respond(ban_user(Db, u))

UnbanUser ==
    /\ StaffOnDuty
    /\ \E u \in BanTargets : Respond(unban_user(Db, u))

(* The loan lifecycle over a fixed catalog and fixed accounts *)
Next ==
    \/ Tick
    \/ Reserve(LoanIds)
    \/ AssignLoan(LoanIds)
    \/ ConfirmPickup
    \/ ReturnBook
    \/ CancelReservation
    \/ ListUserLoans
    \/ ListAllLoans
    \/ GetSettings
    \/ UpdateSettings

(* Every request, one loan at a time *)
NextAll ==
    \/ Tick
    \/ Reserve(FirstLoan)
    \/ AssignLoan(FirstLoan)
    \/ ConfirmPickup
    \/ ReturnBook
    \/ CancelReservation
    \/ ListUserLoans
    \/ ListAllLoans
    \/ GetSettings
    \/ UpdateSettings
    \/ CreateBook
    \/ UpdateBook
    \/ DeleteBook
    \/ DeleteUser
    \/ BanUser
    \/ UnbanUser

Spec == Init /\ [][Next]_vars

SpecAll == InitAll /\ [][NextAll]_vars


---------------------------------------------------------------------------
(* Concurrent reservations. Each request has its own session (get_db); no  *)
(* row is locked and the isolation level is the engine's default, so a     *)
(* session keeps the book row it loaded until one of its own commits       *)
(* expires it, and its UPDATE writes the count it computed from that row.  *)

NumSessions == 2

SessionIds == 1 .. NumSessions

Idle == [pc |-> "idle", user_id |-> 0, book_id |-> 0, copies |-> 0,
         expired |-> FALSE, window |-> 0, res |-> "none", id |-> 0]

RaceSettings ==
    {<< >>, <<DefaultSettings>>}
    \cup {<<u>> : u \in SettingsRequests}

InitRace ==
    /\ now = 0
    /\ users = InitialUsers
    /\ \E data \in {c \in CreateRequests : c.available_copies = 1} :
            books = Final(EmptyDb, create_book(EmptyDb, data)).books
    /\ loans = << >>
    /\ settings \in RaceSettings
    /\ sessions = [p \in SessionIds |-> Idle]

(* lines 172-210: the book row is loaded and the guards are evaluated *)
RaceLoad(p) ==
    /\ sessions[p].pc = "idle"
    /\ \E u \in Members, b \in BookIds :
        LET k == reserve_check(Db, now, u, b) IN
        sessions' = [sessions EXCEPT ![p] =
            IF k = "ok"
            THEN [@ EXCEPT !.pc = "checked", !.user_id = u, !.book_id = b,
                           !.copies = books[b].available_copies]
            ELSE [@ EXCEPT !.pc = "done", !.user_id = u, !.book_id = b,
                           !.res = k]]
    /\ UNCHANGED <<now, users, books, loans, settings>>

(* lines 212-213: get_settings; a commit in it expires the loaded book row *)
RaceReadSettings(p) ==
    /\ sessions[p].pc = "checked"
    /\ LET g == get_settings(Db) IN
        /\ settings' = g.s.settings
        /\ sessions' = [sessions EXCEPT ![p] =
              [@ EXCEPT !.pc = "ready", !.expired = g.committed,
                        !.window = g.s.settings[1].pickup_window_days]]
    /\ UNCHANGED <<now, users, books, loans>>

(* lines 215-231: the decrement on the session's row, the insert, the commit *)
RaceCommit(p) ==
    /\ sessions[p].pc = "ready"
    /\ LET me == sessions[p]
           seen == IF me.expired THEN books[me.book_id].available_copies
                   ELSE me.copies
           id == NextId(DOMAIN loans)
       IN
        /\ books' = [books EXCEPT ![me.book_id] =
                        [@ EXCEPT !.available_copies = seen - 1,
                                  !.is_available = (seen - 1 > 0)]]
        /\ loans' = (id :> NewLoan(me.user_id, me.book_id, "reserved", now,
                                   now + Days(me.window), None, None)) @@ loans
        /\ sessions' = [sessions EXCEPT ![p] =
                          [@ EXCEPT !.pc = "done", !.res = "ok", !.id = id]]
    /\ UNCHANGED <<now, users, settings>>

NextRace == \E p \in SessionIds : RaceLoad(p) \/ RaceReadSettings(p) \/ RaceCommit(p)

SpecRace == InitRace /\ [][NextRace]_vars


---------------------------------------------------------------------------
(* Properties *)

HoldingLoans(d, b) ==
    {l \in DOMAIN d.loans : d.loans[l].book_id = b /\ d.loans[l].status \in Holding}

(* C1: after every request, every book has 0 <= available_copies <=       *)
(* total_copies.                                                           *)
C1_CopiesWithinTotal ==
    \A b \in DOMAIN books :
        /\ 0 <= books[b].available_copies
        /\ books[b].available_copies <= books[b].total_copies

(* C2: in every reachable state, every book's available_copies is its      *)
(* total_copies minus the number of its loans that are RESERVED, ACTIVE or *)
(* OVERDUE.                                                                *)
C2_CopiesMatchLoans ==
    \A b \in DOMAIN books :
        books[b].available_copies =
            books[b].total_copies - Cardinality(HoldingLoans(Db, b))

AllDone == \A p \in DOMAIN sessions : sessions[p].pc = "done"

(* C3: of the concurrent reservations of a book with one available copy,   *)
(* exactly one succeeds, every other one is refused as not available, one  *)
(* RESERVED loan exists, and available_copies ends at 0, never negative.   *)
C3_LastCopyReservedOnce ==
    /\ \A b \in DOMAIN books : books[b].available_copies >= 0
    /\ (sessions # << >> /\ AllDone) =>
        /\ Cardinality({p \in DOMAIN sessions : sessions[p].res = "ok"}) = 1
        /\ \A p \in DOMAIN sessions : sessions[p].res \in {"ok", "unavailable"}
        /\ Cardinality({l \in DOMAIN loans : loans[l].status = "reserved"}) = 1
        /\ \A b \in DOMAIN books : books[b].available_copies = 0


(* The responses the lifecycle handlers that move a copy would give now *)
CopyMovingResponses ==
    {reserve_book(Db, now, u, b) : u \in UserIds, b \in BookIds}
    \cup {assign_loan(Db, now, u, b) : u \in UserIds, b \in BookIds}
    \cup {r \in {confirm_pickup(Db, now, l) : l \in LoanIds} : r.res = "expired"}
    \cup {cancel_reservation(Db, now, u, l) : u \in UserIds, l \in LoanIds}
    \cup {return_book(Db, now, l) : l \in LoanIds}

(* C4: Reserve, AssignLoan, ConfirmPickup on an expired reservation,       *)
(* CancelReservation and ReturnBook commit the loan change and the change  *)
(* of available_copies together: none of their commits changes one without *)
(* the other, and a request that goes through has exactly one such commit. *)
C4_LoanAndCopiesCommitTogether ==
    \A r \in CopyMovingResponses :
        LET log == CommitLog(Db, r.commits) IN
        /\ \A i \in 1 .. Len(log) : log[i].loans = log[i].copies
        /\ r.res \in {"ok", "expired"} =>
              Cardinality({i \in 1 .. Len(log) : log[i].loans /\ log[i].copies}) = 1
        /\ r.res \notin {"ok", "expired"} => log = << >>

C4_Witness ==
    \E l1 \in DOMAIN loans, l2 \in DOMAIN loans :
        /\ loans[l1].status = "cancelled"
        /\ loans[l2].status = "returned"
        /\ loans[l1].book_id = loans[l2].book_id
        /\ books[loans[l1].book_id].available_copies
              = books[loans[l1].book_id].total_copies

(* The guards of Reserve as the lifecycle table lists them *)
CanReserve(u, b) ==
    /\ b \in DOMAIN books /\ books[b].available_copies > 0
    /\ u \in DOMAIN users /\ ~users[u].is_banned
    /\ ~\E l \in DOMAIN loans :
          /\ loans[l].user_id = u /\ loans[l].book_id = b
          /\ loans[l].status = "cancelled"
          /\ now - loans[l].canceled_at < Days(1)

LaterInstants(t) == {x \in Instants : x >= t}

(* C5: Reserve by an eligible user of a book with a free copy, then        *)
(* ConfirmPickup no later than pickup_deadline, then ReturnBook no later   *)
(* than due_date: the loan ends RETURNED with returned_at set and no fine, *)
(* and available_copies is back at its value before the Reserve.           *)
C5_LifecycleRestoresCopies ==
    \A u \in UserIds, b \in BookIds :
        CanReserve(u, b) =>
            LET r1 == reserve_book(Db, now, u, b)
                d1 == Final(Db, r1)
            IN
            /\ r1.res = "ok"
            /\ \A t2 \in LaterInstants(now) :
                  t2 <= d1.loans[r1.id].pickup_deadline =>
                      LET r2 == confirm_pickup(d1, t2, r1.id)
                          d2 == Final(d1, r2)
                      IN
                      /\ r2.res = "ok"
                      /\ \A t3 \in LaterInstants(t2) :
                            t3 <= d2.loans[r1.id].due_date =>
                                LET r3 == return_book(d2, t3, r1.id)
                                    d3 == Final(d2, r3)
                                IN
                                /\ r3.res = "ok"
                                /\ d3.loans[r1.id].status = "returned"
                                /\ d3.loans[r1.id].returned_at = t3
                                /\ d3.loans[r1.id].fine_amount = 0
                                /\ d3.books[b].available_copies
                                      = books[b].available_copies
                                /\ d3.books[b].is_available

C5_Witness ==
    \E l \in DOMAIN loans :
        /\ loans[l].status = "returned"
        /\ loans[l].pickup_deadline # None
        /\ loans[l].start_date <= loans[l].pickup_deadline
        /\ loans[l].returned_at = loans[l].due_date
        /\ loans[l].fine_amount = 0
        /\ books[loans[l].book_id].available_copies
              = books[loans[l].book_id].total_copies

(* C6: ConfirmPickup on a RESERVED loan after its pickup_deadline answers  *)
(* with the expired failure and still commits, in that call, the status    *)
(* EXPIRED and available_copies + 1, which is the count from before the    *)
(* reservation.                                                            *)
C6_ExpiredPickupReleasesCopy ==
    /\ \A l \in DOMAIN loans :
          (loans[l].status = "reserved" /\ now > loans[l].pickup_deadline) =>
              LET r == confirm_pickup(Db, now, l)
                  fin == Final(Db, r)
                  b == loans[l].book_id
              IN
              /\ r.res = "expired"
              /\ Len(r.commits) = 1
              /\ fin.loans[l].status = "expired"
              /\ fin.books[b].available_copies = books[b].available_copies + 1
    /\ \A u \in UserIds, b \in BookIds :
          CanReserve(u, b) =>
              LET r1 == reserve_book(Db, now, u, b)
                  d1 == Final(Db, r1)
              IN
              \A t2 \in LaterInstants(now) :
                  t2 > d1.loans[r1.id].pickup_deadline =>
                      LET r2 == confirm_pickup(d1, t2, r1.id)
                          d2 == Final(d1, r2)
                      IN
                      /\ r2.res = "expired"
                      /\ d2.loans[r1.id].status = "expired"
                      /\ d2.books[b].available_copies = books[b].available_copies

C6_Witness ==
    \E l \in DOMAIN loans :
        /\ loans[l].status = "expired"
        /\ Cardinality(HoldingLoans(Db, loans[l].book_id)) = 0
        /\ books[loans[l].book_id].available_copies
              = books[loans[l].book_id].total_copies

Returnable(l) == l \in DOMAIN loans /\ loans[l].status \in {"active", "overdue"}

CalendarDays(t, due) == DateOf(t) - DateOf(due)

(* The daily fine rate of the committed settings row *)
CommittedRate == settings[1].daily_fine_amount

(* The examples of the fine rule: 10 days at 0.75 give 7.5 *)
TenDaysExample ==
    \A due \in 0 .. TicksPerDay, old \in {0, 75} :
        ReturnFine(due + Days(10), due, 75, old) = 750

(* C7: ReturnBook of an ACTIVE or OVERDUE loan after due_date, d >= 1      *)
(* calendar days after it, sets fine_amount to d times the current daily   *)
(* fine rate, whatever fine a sweep stored before; 10 days at 0.75 give    *)
(* 7.5.                                                                    *)
C7_LateReturnFine ==
    /\ \A l \in LoanIds :
          (/\ Returnable(l)
           /\ now > loans[l].due_date
           /\ CalendarDays(now, loans[l].due_date) >= 1) =>
              LET r == return_book(Db, now, l)
                  fin == Final(Db, r)
              IN
              /\ r.res = "ok"
              /\ fin.loans[l].status = "returned"
              /\ fin.loans[l].fine_amount =
                    CalendarDays(now, loans[l].due_date) * CommittedRate
    /\ TenDaysExample

(* What does hold of a late return: the fine is d times the rate that      *)
(* get_settings hands to the handler, which is the rate stored afterwards  *)
LateReturnFineAtReadRate ==
    /\ \A l \in LoanIds :
          (/\ Returnable(l)
           /\ now > loans[l].due_date
           /\ CalendarDays(now, loans[l].due_date) >= 1) =>
              LET r == return_book(Db, now, l)
                  fin == Final(Db, r)
              IN
              /\ r.res = "ok"
              /\ fin.loans[l].status = "returned"
              /\ fin.loans[l].fine_amount =
                    CalendarDays(now, loans[l].due_date)
                        * fin.settings[1].daily_fine_amount
    /\ TenDaysExample

LateReturnWitness ==
    \E l \in DOMAIN loans :
        /\ loans[l].status = "returned"
        /\ CalendarDays(loans[l].returned_at, loans[l].due_date) = 2
        /\ loans[l].fine_amount = 2 * 75
        /\ settings[1].daily_fine_amount = 75


SameDayLate(l) ==
    /\ Returnable(l)
    /\ now > loans[l].due_date
    /\ CalendarDays(now, loans[l].due_date) = 0

NotYetDue(l) == Returnable(l) /\ now <= loans[l].due_date

(* C8: a fine computed, by ReturnBook or by a listing, after due_date but  *)
(* on the calendar day of due_date counts one day late: fine_amount is 1   *)
(* times the daily fine rate (a rate above 0 is meant), not 0. At or       *)
(* before due_date no fine is computed and fine_amount stays 0.            *)
C8_SameDayLatenessIsOneDay ==
    \A l \in LoanIds :
        LET ret == Final(Db, return_book(Db, now, l))
            swept == Final(Db, get_user_loans(Db, now, loans[l].user_id))
        IN
        /\ (SameDayLate(l) /\ CommittedRate > 0) =>
              /\ ret.loans[l].fine_amount = 1 * CommittedRate
              /\ ret.loans[l].fine_amount # 0
              /\ swept.loans[l].fine_amount = 1 * CommittedRate
              /\ swept.loans[l].fine_amount # 0
        /\ NotYetDue(l) =>
              /\ loans[l].fine_amount = 0
              /\ ret.loans[l].fine_amount = 0
              /\ swept.loans[l] = loans[l]

(* What does hold on the day of the due date: one day at the rate that     *)
(* get_settings hands to the handler, never 0                              *)
SameDayLatenessAtReadRate ==
    \A l \in LoanIds :
        LET ret == Final(Db, return_book(Db, now, l))
            swept == Final(Db, get_user_loans(Db, now, loans[l].user_id))
        IN
        /\ SameDayLate(l) =>
              /\ ret.loans[l].fine_amount = 1 * ret.settings[1].daily_fine_amount
              /\ ret.loans[l].fine_amount # 0
              /\ swept.loans[l].fine_amount = 1 * swept.settings[1].daily_fine_amount
              /\ swept.loans[l].fine_amount # 0
              /\ swept.loans[l].status = "overdue"
        /\ NotYetDue(l) =>
              /\ loans[l].fine_amount = 0
              /\ ret.loans[l].fine_amount = 0
              /\ swept.loans[l] = loans[l]

(* C9: the settings a handler works with are the committed ones: reading   *)
(* them replaces no committed value, new deadlines and due dates use the   *)
(* committed pickup_window_days and standard_loan_days, and fines use the  *)
(* committed daily_fine_amount, for every accepted rate.                   *)
C9_HandlersUseCommittedSettings ==
    settings # << >> =>
        /\ get_settings(Db).s.settings = settings
        /\ ~get_settings(Db).committed
        /\ \A u \in UserIds, b \in BookIds :
              LET r == reserve_book(Db, now, u, b) IN
              r.res = "ok" =>
                  /\ Final(Db, r).settings = settings
                  /\ Final(Db, r).loans[r.id].pickup_deadline
                        = now + Days(settings[1].pickup_window_days)
        /\ \A u \in UserIds, b \in BookIds :
              LET r == assign_loan(Db, now, u, b) IN
              r.res = "ok" =>
                  /\ Final(Db, r).settings = settings
                  /\ Final(Db, r).loans[r.id].due_date
                        = now + Days(settings[1].standard_loan_days)
        /\ \A l \in LoanIds :
              LET r == confirm_pickup(Db, now, l) IN
              r.res = "ok" =>
                  /\ Final(Db, r).settings = settings
                  /\ Final(Db, r).loans[l].due_date
                        = now + Days(settings[1].standard_loan_days)
        /\ \A l \in LoanIds :
              (Returnable(l) /\ now > loans[l].due_date) =>
                  /\ Final(Db, return_book(Db, now, l)).settings = settings
                  /\ Final(Db, return_book(Db, now, l)).loans[l].fine_amount
                        = DaysLate(now, loans[l].due_date) * CommittedRate

(* The at-least-one-day rule of the fine computation *)
AtLeastOneDay(t, due) ==
    IF CalendarDays(t, due) < 1 THEN 1 ELSE CalendarDays(t, due)

OutstandingPastDue(loan, t) ==
    /\ loan.status \in {"active", "overdue"}
    /\ loan.due_date # None
    /\ loan.due_date < t

(* C10: right after UpdateSettings with daily fine rate r, with no return  *)
(* and no listing, every ACTIVE or OVERDUE loan past its due_date is       *)
(* OVERDUE with fine_amount = days late times r, days late being at least  *)
(* one; every other loan is as it was.                                     *)
C10_UpdateSettingsRepricesOverdueLoans ==
    \A upd \in SettingsRequests :
        LET r == update_settings(Db, now, upd)
            fin == Final(Db, r)
        IN
        /\ r.res = "ok"
        /\ fin.settings = <<upd>>
        /\ DOMAIN fin.loans = DOMAIN loans
        /\ \A l \in DOMAIN loans :
              IF OutstandingPastDue(loans[l], now)
              THEN fin.loans[l] =
                      [loans[l] EXCEPT
                          !.status = "overdue",
                          !.fine_amount = AtLeastOneDay(now, loans[l].due_date)
                                              * upd.daily_fine_amount]
              ELSE fin.loans[l] = loans[l]

C10_Witness ==
    /\ settings # << >>
    /\ settings[1].daily_fine_amount = HalfRate
    /\ \E l \in DOMAIN loans :
          /\ loans[l].status = "overdue"
          /\ CalendarDays(now, loans[l].due_date) = 2
          /\ loans[l].fine_amount = 2 * HalfRate
    /\ \E l \in DOMAIN loans :
          /\ loans[l].status = "active"
          /\ loans[l].due_date > now

(* C11: CancelReservation by the owner of a RESERVED loan succeeds, before *)
(* and after pickup_deadline alike: the loan is CANCELLED, canceled_at is  *)
(* the time of the call, and available_copies is one more, which after a   *)
(* Reserve is the count from before it.                                    *)
C11_OwnerCancelReleasesCopy ==
    /\ \A l \in DOMAIN loans :
          loans[l].status = "reserved" =>
              LET r == cancel_reservation(Db, now, loans[l].user_id, l)
                  fin == Final(Db, r)
                  b == loans[l].book_id
              IN
              /\ r.res = "ok"
              /\ Len(r.commits) = 1
              /\ fin.loans[l] = [loans[l] EXCEPT !.status = "cancelled",
                                                 !.canceled_at = now]
              /\ fin.books[b].available_copies = books[b].available_copies + 1
              /\ \A k \in DOMAIN loans \ {l} : fin.loans[k] = loans[k]
    /\ \A u \in UserIds, b \in BookIds :
          CanReserve(u, b) =>
              LET r1 == reserve_book(Db, now, u, b)
                  d1 == Final(Db, r1)
              IN
              \A t2 \in LaterInstants(now) :
                  LET r2 == cancel_reservation(d1, t2, u, r1.id)
                      d2 == Final(d1, r2)
                  IN
                  /\ r2.res = "ok"
                  /\ d2.loans[r1.id].status = "cancelled"
                  /\ d2.loans[r1.id].canceled_at = t2
                  /\ d2.books[b].available_copies = books[b].available_copies

C11_Witness ==
    \E l \in DOMAIN loans :
        /\ loans[l].status = "cancelled"
        /\ loans[l].canceled_at > loans[l].pickup_deadline
        /\ books[loans[l].book_id].available_copies > 0

(* The cancellations that the 24 hours rule counts against (u, b) now *)
InCooldown(u, b) ==
    {l \in DOMAIN loans :
        /\ loans[l].user_id = u /\ loans[l].book_id = b
        /\ loans[l].status = "cancelled"
        /\ now < loans[l].canceled_at + Days(1)}

(* The guards of Reserve other than the 24 hours rule *)
OtherGuardsHold(u, b) ==
    /\ b \in DOMAIN books /\ books[b].available_copies > 0
    /\ u \in DOMAIN users /\ ~users[u].is_banned

(* The catalog with one more title, in stock *)
OtherBook == Max(BookIds) + 1

WithOtherBook ==
    [Db EXCEPT !.books = @ @@ (OtherBook :>
        [isbn |-> Max(Isbns) + 1, total_copies |-> 1, available_copies |-> 1,
         is_available |-> TRUE])]

(* C12 as stated: less than 24 hours after u cancelled a reservation of b, *)
(* every Reserve(u, b) fails with the invalid-state error and changes      *)
(* nothing.                                                                *)
C12_ReserveInCooldownIsInvalidState ==
    \A u \in UserIds, b \in BookIds :
        InCooldown(u, b) # {} =>
            /\ reserve_book(Db, now, u, b).res = "invalid_state"
            /\ reserve_book(Db, now, u, b).commits = << >>

(* C12, amended: less than 24 hours after u cancelled a reservation of b,  *)
(* every Reserve(u, b) fails and changes nothing, with the invalid-state   *)
(* error when the other guards hold; from 24 hours on it succeeds when the *)
(* other guards hold. Only cancellations of the same user and book count:  *)
(* another title can be reserved at once, and EXPIRED or RETURNED loans    *)
(* block nothing.                                                          *)
C12_CooldownAfterCancel ==
    \A u \in UserIds, b \in BookIds :
        LET r == reserve_book(Db, now, u, b) IN
        /\ InCooldown(u, b) # {} =>
              /\ r.res # "ok"
              /\ r.commits = << >>
              /\ OtherGuardsHold(u, b) => r.res = "invalid_state"
        /\ (InCooldown(u, b) = {} /\ OtherGuardsHold(u, b)) => r.res = "ok"
        /\ (u \in DOMAIN users /\ ~users[u].is_banned) =>
              reserve_book(WithOtherBook, now, u, OtherBook).res = "ok"

C12_Witness ==
    \E l1 \in DOMAIN loans, l2 \in DOMAIN loans :
        /\ loans[l1].status = "cancelled"
        /\ loans[l2].user_id = loans[l1].user_id
        /\ loans[l2].book_id = loans[l1].book_id
        /\ loans[l2].status = "reserved"
        /\ loans[l2].reservation_date = loans[l1].canceled_at + Days(1)

Terminal == {"returned", "expired", "cancelled"}

(* No request on a loan in a terminal status commits anything *)
TerminalLoansRejectRequests ==
    \A l \in DOMAIN loans :
        loans[l].status \in Terminal =>
            /\ confirm_pickup(Db, now, l).res = "invalid_state"
            /\ confirm_pickup(Db, now, l).commits = << >>
            /\ return_book(Db, now, l).res = "invalid_state"
            /\ return_book(Db, now, l).commits = << >>
            /\ \A u \in UserIds :
                  /\ cancel_reservation(Db, now, u, l).res
                        \in {"invalid_state", "forbidden"}
                  /\ cancel_reservation(Db, now, u, l).commits = << >>

(* No step changes a loan in a terminal status *)
TerminalLoansStay ==
    \A l \in DOMAIN loans :
        loans[l].status \in Terminal =>
            /\ l \in DOMAIN loans'
            /\ loans'[l] = loans[l]

(* C13: RETURNED, EXPIRED and CANCELLED are terminal: no operation changes *)
(* the status or the fine_amount of a loan that has one of them, and a     *)
(* request on such a loan changes no book's available_copies.              *)
C13_TerminalStatuses ==
    /\ []TerminalLoansRejectRequests
    /\ [][TerminalLoansStay]_vars

C13_Witness ==
    \E l1 \in DOMAIN loans, l2 \in DOMAIN loans :
        /\ loans[l1].status = "returned"
        /\ loans[l1].returned_at < now
        /\ loans[l1].due_date < loans[l1].returned_at
        /\ loans[l1].fine_amount > 0
        /\ loans[l1].fine_amount # AtLeastOneDay(now, loans[l1].due_date) * CommittedRate
        /\ loans[l2].status = "overdue"
        /\ loans[l2].fine_amount = AtLeastOneDay(now, loans[l2].due_date) * CommittedRate
        /\ loans[l2].fine_amount > 0

(* The transitions of the lifecycle table *)
Transitions ==
    {<<"reserved", "active">>, <<"reserved", "expired">>, <<"reserved", "cancelled">>,
     <<"active", "overdue">>, <<"active", "returned">>, <<"overdue", "returned">>}

(* Loan ids a request can name: the ones in use and one that is not *)
NamedLoans == LoanIds \cup {Max(LoanIds) + 1}

(* C14 as stated, for CancelReservation: it is rejected with the           *)
(* invalid-state error for every loan whose status is not RESERVED.        *)
C14_CancelOfOtherStatusIsInvalidState ==
    \A l \in DOMAIN loans, u \in UserIds :
        loans[l].status # "reserved" =>
            cancel_reservation(Db, now, u, l).res = "invalid_state"

RejectedByStatus ==
    \A l \in NamedLoans :
        LET pick == confirm_pickup(Db, now, l)
            ret == return_book(Db, now, l)
        IN
        IF l \notin DOMAIN loans
        THEN /\ pick.res = "not_found" /\ pick.commits = << >>
             /\ ret.res = "not_found" /\ ret.commits = << >>
             /\ \A u \in UserIds :
                   /\ cancel_reservation(Db, now, u, l).res = "not_found"
                   /\ cancel_reservation(Db, now, u, l).commits = << >>
        ELSE /\ loans[l].status # "reserved" =>
                   /\ pick.res = "invalid_state" /\ pick.commits = << >>
                   /\ \A u \in UserIds :
                         /\ cancel_reservation(Db, now, u, l).res =
                               IF u = loans[l].user_id THEN "invalid_state"
                               ELSE "forbidden"
                         /\ cancel_reservation(Db, now, u, l).commits = << >>
             /\ loans[l].status \notin {"active", "overdue"} =>
                   /\ ret.res = "invalid_state" /\ ret.commits = << >>

StatusFollowsTransitions ==
    /\ \A l \in DOMAIN loans :
          /\ l \in DOMAIN loans'
          /\ \/ loans'[l].status = loans[l].status
             \/ <<loans[l].status, loans'[l].status>> \in Transitions
    /\ \A l \in DOMAIN loans' \ DOMAIN loans :
          loans'[l].status \in {"reserved", "active"}

(* C14, amended: ConfirmPickup is rejected with invalid-state for every    *)
(* loan that is not RESERVED, and so is CancelReservation by the loan's    *)
(* owner (by any other user it is rejected as forbidden); ReturnBook is    *)
(* rejected with invalid-state for every loan that is not ACTIVE or        *)
(* OVERDUE; a loan id that does not exist is rejected with not-found. A    *)
(* loan starts RESERVED or ACTIVE and its status moves only along          *)
(* RESERVED -> ACTIVE, EXPIRED, CANCELLED; ACTIVE -> OVERDUE, RETURNED;    *)
(* OVERDUE -> RETURNED.                                                    *)
C14_StatusFollowsTransitions ==
    /\ []RejectedByStatus
    /\ [][StatusFollowsTransitions]_vars

C14_Witness ==
    \E l1 \in DOMAIN loans, l2 \in DOMAIN loans :
        /\ loans[l1].status = "overdue"
        /\ loans[l2].status = "expired"
        /\ loans[l1].user_id # loans[l2].user_id

(* pickup_window_days as a handler finds it: the stored one, or the default *)
(* of the row that the first read creates                                   *)
PickupWindowDays ==
    IF settings = << >> THEN DefaultPickupWindowDays
    ELSE settings[1].pickup_window_days

StandardLoanDays ==
    IF settings = << >> THEN DefaultStandardLoanDays
    ELSE settings[1].standard_loan_days

(* Everything but loan id and book b is as it was *)
OnlyTouches(fin, id, b) ==
    /\ DOMAIN fin.loans = DOMAIN loans \cup {id}
    /\ \A k \in DOMAIN loans \ {id} : fin.loans[k] = loans[k]
    /\ DOMAIN fin.books = DOMAIN books
    /\ \A k \in DOMAIN books \ {b} : fin.books[k] = books[k]
    /\ fin.books[b].total_copies = books[b].total_copies
    /\ fin.users = users

(* C15: Reserve(user, book) succeeds exactly when the book exists with     *)
(* available_copies > 0 and the user exists, is not banned and has not     *)
(* cancelled a reservation of this book within the last 24 hours; it then  *)
(* creates one loan, RESERVED, with reservation_date = now and             *)
(* pickup_deadline = now + pickup_window_days, and takes one copy.         *)
C15_ReserveGuardsAndEffect ==
    \A u \in UserIds, b \in BookIds :
        LET r == reserve_book(Db, now, u, b)
            fin == Final(Db, r)
        IN
        /\ r.res = "ok" <=> CanReserve(u, b)
        /\ r.res = "ok" =>
              /\ r.id \notin DOMAIN loans
              /\ OnlyTouches(fin, r.id, b)
              /\ fin.loans[r.id] =
                    NewLoan(u, b, "reserved", now, now + Days(PickupWindowDays),
                            None, None)
              /\ fin.loans[r.id].reservation_date = now
              /\ fin.loans[r.id].status = "reserved"
              /\ fin.books[b].available_copies = books[b].available_copies - 1
              /\ fin.settings[1].pickup_window_days = PickupWindowDays

C15_Witness ==
    /\ \E l \in DOMAIN loans :
          /\ loans[l].status = "reserved"
          /\ loans[l].reservation_date > 0
          /\ loans[l].pickup_deadline = loans[l].reservation_date + Days(1)
          /\ books[loans[l].book_id].available_copies
                = books[loans[l].book_id].total_copies - 1
    /\ \E u \in DOMAIN users : users[u].is_banned

(* The guards of AssignLoan as the lifecycle table lists them *)
CanAssign(u, b) ==
    /\ u \in DOMAIN users /\ users[u].role = "member" /\ ~users[u].is_banned
    /\ b \in DOMAIN books /\ books[b].available_copies > 0

(* C16: AssignLoan(user, book) succeeds exactly when the user exists, is a *)
(* MEMBER and is not banned and the book exists with available_copies > 0; *)
(* it then creates one loan, ACTIVE at once, with start_date = now and     *)
(* due_date = now + standard_loan_days, and takes one copy. A LIBRARIAN or *)
(* ADMIN as the target user is always rejected.                            *)
C16_AssignGuardsAndEffect ==
    \A u \in UserIds, b \in BookIds :
        LET r == assign_loan(Db, now, u, b)
            fin == Final(Db, r)
        IN
        /\ r.res = "ok" <=> CanAssign(u, b)
        /\ r.res # "ok" => r.commits = << >>
        /\ (u \in DOMAIN users /\ users[u].role \in {"librarian", "admin"}) =>
              r.res = "not_member"
        /\ r.res = "ok" =>
              /\ r.id \notin DOMAIN loans
              /\ OnlyTouches(fin, r.id, b)
              /\ fin.loans[r.id] =
                    NewLoan(u, b, "active", now, None, now,
                            now + Days(StandardLoanDays))
              /\ fin.loans[r.id].status = "active"
              /\ fin.loans[r.id].start_date = now
              /\ fin.books[b].available_copies = books[b].available_copies - 1
              /\ fin.settings[1].standard_loan_days = StandardLoanDays

C16_Witness ==
    /\ \E l \in DOMAIN loans :
          /\ loans[l].status = "active"
          /\ loans[l].pickup_deadline = None
          /\ loans[l].start_date = loans[l].reservation_date
          /\ loans[l].start_date > 0
          /\ loans[l].due_date = loans[l].start_date + Days(1)
          /\ users[loans[l].user_id].role = "member"
          /\ books[loans[l].book_id].available_copies
                = books[loans[l].book_id].total_copies - 1
    /\ \E u \in DOMAIN users : users[u].role = "librarian"

PickupInTime ==
    \A l \in DOMAIN loans :
        loans[l].status = "reserved" =>
            LET r == confirm_pickup(Db, now, l)
                fin == Final(Db, r)
            IN
            /\ r.res = "ok" <=> now <= loans[l].pickup_deadline
            /\ fin.loans[l].status = "active" <=> now <= loans[l].pickup_deadline
            /\ r.res = "ok" =>
                  /\ fin.loans[l] =
                        [loans[l] EXCEPT !.status = "active",
                                         !.start_date = now,
                                         !.due_date = now + Days(StandardLoanDays)]
                  /\ fin.books = books
                  /\ OnlyTouches(fin, l, loans[l].book_id)

LapsedNeverActive ==
    \A l \in DOMAIN loans :
        (loans[l].status = "reserved" /\ now > loans[l].pickup_deadline) =>
            (l \in DOMAIN loans' /\ loans'[l].status # "active")

(* C17: ConfirmPickup makes a RESERVED loan ACTIVE exactly when            *)
(* now <= pickup_deadline, the deadline instant included; it then sets     *)
(* start_date = now and due_date = now + standard_loan_days and leaves     *)
(* available_copies alone. A RESERVED loan past its pickup_deadline never  *)
(* becomes ACTIVE.                                                         *)
C17_PickupUpToDeadline ==
    /\ []PickupInTime
    /\ [][LapsedNeverActive]_vars

C17_Witness ==
    \E l \in DOMAIN loans :
        /\ loans[l].status = "active"
        /\ loans[l].start_date = loans[l].pickup_deadline
        /\ loans[l].due_date = loans[l].start_date + Days(1)
        /\ books[loans[l].book_id].available_copies
              = books[loans[l].book_id].total_copies - 1

ReserveResponses == {reserve_book(Db, now, u, b) : u \in UserIds, b \in BookIds}

AssignResponses == {assign_loan(Db, now, u, b) : u \in UserIds, b \in BookIds}

PickupResponses == {confirm_pickup(Db, now, l) : l \in NamedLoans}

ReturnResponses == {return_book(Db, now, l) : l \in NamedLoans}

CancelResponses ==
    {cancel_reservation(Db, now, u, l) : u \in UserIds, l \in NamedLoans}

(* The responses every request would get now *)
AllResponses ==
    ReserveResponses \cup AssignResponses \cup PickupResponses
    \cup ReturnResponses \cup CancelResponses
    \cup {update_settings(Db, now, upd) :
            upd \in SettingsRequests \cup InvalidSettingsRequests}
    \cup {create_book(Db, data) : data \in CreateRequests}
    \cup {update_book(Db, b, data) : b \in BookIds, data \in UpdateRequests}
    \cup {delete_book(Db, b) : b \in BookIds}

(* C18: a request that fails, other than a ConfirmPickup past the          *)
(* deadline, leaves the loans, the books' copy counts and flags and the    *)
(* settings as they were: not-found, not-available, banned user,           *)
(* non-member assignment, cooldown, ownership mismatch and invalid state.  *)
C18_FailuresChangeNothing ==
    \A r \in AllResponses :
        r.res \notin {"ok", "expired"} =>
            /\ r.commits = << >>
            /\ Final(Db, r) = Db

C18_Witness ==
    /\ {"forbidden", "invalid_state"} \subseteq {r.res : r \in ReserveResponses}
    /\ {"not_member", "forbidden", "ok"} \subseteq {r.res : r \in AssignResponses}
    /\ {"not_found", "invalid_state"} \subseteq {r.res : r \in PickupResponses}
    /\ {"not_found", "invalid_state"} \subseteq {r.res : r \in ReturnResponses}
    /\ {"forbidden", "invalid_state"} \subseteq {r.res : r \in CancelResponses}
    /\ settings # << >>
    /\ settings[1].daily_fine_amount \in ResetRates

SoldOutFailuresOccur ==
    /\ "unavailable" \in {r.res : r \in ReserveResponses}
    /\ "unavailable" \in {r.res : r \in AssignResponses}

---------------------------------------------------------------------------
(* A reservation nobody attends to: requests keep coming, but none is a    *)
(* ConfirmPickup or a CancelReservation of loan Unattended.                *)

Unattended == Min(LoanIds)

PickupOfOthers ==
    /\ StaffOnDuty
    /\ \E l \in LoanIds \ {Unattended} : Respond(confirm_pickup(Db, now, l))

CancelOfOthers ==
    \E u \in Members, l \in LoanIds \ {Unattended} :
        Respond(cancel_reservation(Db, now, u, l))

NextUnattended ==
    \/ Tick
    \/ Reserve(LoanIds)
    \/ AssignLoan(LoanIds)
    \/ PickupOfOthers
    \/ ReturnBook
    \/ CancelOfOthers
    \/ ListUserLoans
    \/ ListAllLoans
    \/ GetSettings
    \/ UpdateSettings

(* Time passes, and loans keep being listed and settings keep being edited *)
SpecUnattended ==
    /\ Init
    /\ [][NextUnattended]_vars
    /\ WF_vars(Tick)
    /\ WF_vars(ListUserLoans)
    /\ WF_vars(ListAllLoans)
    /\ WF_vars(UpdateSettings)

Lapsed(l) ==
    /\ l \in DOMAIN loans
    /\ loans[l].status = "reserved"
    /\ now > loans[l].pickup_deadline

ExpiredAndReleased(l) ==
    /\ l \in DOMAIN loans
    /\ loans[l].status = "expired"
    /\ Cardinality(HoldingLoans(Db, loans[l].book_id))
          + books[loans[l].book_id].available_copies
          = books[loans[l].book_id].total_copies

(* C19: a RESERVED loan whose pickup_deadline has passed eventually        *)
(* becomes EXPIRED, with its copy released, although nobody calls          *)
(* ConfirmPickup or CancelReservation on it and only listings and          *)
(* operations on other loans keep happening.                               *)
C19_LapsedReservationExpires ==
    Lapsed(Unattended) ~> ExpiredAndReleased(Unattended)

(* What a listing owes the loans in its scope *)
SweptAsListed(fin, scope) ==
    /\ DOMAIN fin.loans = DOMAIN loans
    /\ \A l \in DOMAIN loans :
          IF l \in scope /\ OutstandingPastDue(loans[l], now)
          THEN fin.loans[l] =
                  [loans[l] EXCEPT
                      !.status = "overdue",
                      !.fine_amount = AtLeastOneDay(now, loans[l].due_date)
                                          * fin.settings[1].daily_fine_amount]
          ELSE fin.loans[l] = loans[l]
    /\ fin.books = books

(* The per-user listing does sweep every loan of its user *)
UserListingSweepsItsLoans ==
    \A u \in UserIds :
        SweptAsListed(Final(Db, get_user_loans(Db, now, u)),
                      {l \in DOMAIN loans : loans[l].user_id = u})

(* C20: after a listing, ListUserLoans(u) or ListAllLoans with any skip    *)
(* and limit, every loan in scope (every loan of u, every loan in the      *)
(* system) that was ACTIVE or OVERDUE with due_date < now is OVERDUE with  *)
(* fine_amount = days late times the daily fine rate; no book's            *)
(* available_copies changes and loans not past due are unchanged.          *)
C20_ListingsSweepEveryLoanInScope ==
    /\ UserListingSweepsItsLoans
    /\ \A skip \in SkipChoices, limit \in LimitChoices :
          SweptAsListed(Final(Db, get_all_loans(Db, now, skip, limit)),
                        DOMAIN loans)

(* The listings that can be asked for now *)
Listings ==
    {get_user_loans(Db, now, u) : u \in UserIds}
    \cup {get_all_loans(Db, now, skip, limit) :
            skip \in SkipChoices, limit \in LimitChoices}

(* C21: the sweep is idempotent: a listing run a second time at the same   *)
(* instant leaves the state that the first run left, an OVERDUE loan       *)
(* keeping its status and its fine_amount; and no listing sets an OVERDUE  *)
(* loan back to ACTIVE.                                                    *)
C21_SweepIsIdempotent ==
    /\ \A u \in UserIds :
          LET once == Final(Db, get_user_loans(Db, now, u))
              twice == Final(once, get_user_loans(once, now, u))
          IN twice = once
    /\ \A skip \in SkipChoices, limit \in LimitChoices :
          LET once == Final(Db, get_all_loans(Db, now, skip, limit))
              twice == Final(once, get_all_loans(once, now, skip, limit))
          IN twice = once
    /\ \A r \in Listings, l \in DOMAIN loans :
          loans[l].status = "overdue" =>
              Final(Db, r).loans[l].status = "overdue"

C21_Witness ==
    /\ settings # << >>
    /\ settings[1].daily_fine_amount = 75
    /\ now = MaxTime
    /\ \E l1 \in DOMAIN loans, l2 \in DOMAIN loans :
          /\ l1 # l2
          /\ loans[l1].status = "overdue"
          /\ loans[l1].fine_amount = DaysLate(now, loans[l1].due_date) * 75
          /\ loans[l2].status = "overdue"
          /\ loans[l2].fine_amount = DaysLate(now, loans[l2].due_date) * 75
          /\ loans[l1].due_date # loans[l2].due_date

(* A cancellation asked for by anyone but the loan's user is forbidden *)
NonOwnerCancelForbidden ==
    \A l \in DOMAIN loans, u \in UserIds :
        u # loans[l].user_id =>
            LET r == cancel_reservation(Db, now, u, l) IN
            /\ r.res = "forbidden"
            /\ r.commits = << >>
            /\ Final(Db, r).loans[l] = loans[l]
            /\ Final(Db, r).books = books

(* A step that cancels a loan is the cancel_reservation of the loan's user *)
CancelledOnlyByOwner ==
    \A l \in DOMAIN loans :
        (/\ loans[l].status # "cancelled"
         /\ l \in DOMAIN loans'
         /\ loans'[l].status = "cancelled") =>
            LET r == cancel_reservation(Db, now, loans[l].user_id, l) IN
            /\ r.res = "ok"
            /\ loans[l].user_id \in Members
            /\ loans' = Final(Db, r).loans
            /\ books' = Final(Db, r).books

(* C22: CancelReservation(user, loan) by a user who is not the loan's      *)
(* owner always fails with the forbidden error, whatever the loan's        *)
(* status, and leaves the loan and the book unchanged; a loan reaches      *)
(* CANCELLED only through a call by its own user.                          *)
C22_OnlyOwnerCancels ==
    /\ []NonOwnerCancelForbidden
    /\ [][CancelledOnlyByOwner]_vars

C22_Witness ==
    \E l1 \in DOMAIN loans, l2 \in DOMAIN loans :
        /\ loans[l1].status = "cancelled"
        /\ loans[l2].status = "reserved"
        /\ loans[l1].user_id # loans[l2].user_id
        /\ loans[l2].reservation_date < loans[l1].canceled_at

---------------------------------------------------------------------------
(* api/dependencies.py and the routes: who may ask for what. caller is the *)
(* user id of the request's token.                                         *)

get_current_user(d, caller) ==
    IF caller \in DOMAIN d.users THEN "ok" ELSE "unauthorized"

(* get_current_librarian that lets every authenticated user through *)
get_current_librarian_any_role(d, caller) == get_current_user(d, caller)

get_current_librarian(d, caller) ==
    IF get_current_user(d, caller) # "ok" THEN get_current_user(d, caller)
    ELSE IF d.users[caller].role \notin {"librarian", "admin"} THEN "forbidden"
    ELSE "ok"

get_current_member(d, caller) ==
    IF get_current_user(d, caller) # "ok" THEN get_current_user(d, caller)
    ELSE IF d.users[caller].role # "member" THEN "forbidden"
    ELSE "ok"

(* Depends(...): the handler runs only if the dependency raised nothing *)
Guarded(dep, r) == IF dep = "ok" THEN r ELSE Failure(dep)

loans_reserve_book(d, t, caller, book_id) ==
    Guarded(get_current_member(d, caller), reserve_book(d, t, caller, book_id))

loans_assign_loan(d, t, caller, user_id, book_id) ==
    Guarded(get_current_librarian(d, caller), assign_loan(d, t, user_id, book_id))

loans_confirm_pickup(d, t, caller, loan_id) ==
    Guarded(get_current_librarian(d, caller), confirm_pickup(d, t, loan_id))

loans_return_book(d, t, caller, loan_id) ==
    Guarded(get_current_librarian(d, caller), return_book(d, t, loan_id))

loans_cancel_reservation(d, t, caller, loan_id) ==
    Guarded(get_current_member(d, caller), cancel_reservation(d, t, caller, loan_id))

loans_get_my_loans(d, t, caller) ==
    Guarded(get_current_user(d, caller), get_user_loans(d, t, caller))

loans_get_all_loans(d, t, caller, skip, limit) ==
    Guarded(get_current_librarian(d, caller), get_all_loans(d, t, skip, limit))

books_create_book(d, caller, data) ==
    Guarded(get_current_librarian(d, caller), create_book(d, data))

books_update_book(d, caller, book_id, data) ==
    Guarded(get_current_librarian(d, caller), update_book(d, book_id, data))

books_delete_book(d, caller, book_id) ==
    Guarded(get_current_librarian(d, caller), delete_book(d, book_id))

settings_get_settings(d, caller) ==
    Guarded(get_current_librarian(d, caller),
            [res |-> "ok", commits |-> SettingsCommit(get_settings(d)), id |-> 0])

settings_update_settings(d, t, caller, updates) ==
    Guarded(get_current_librarian(d, caller), update_settings(d, t, updates))

(* The responses to the requests caller can send to the routes for staff *)
StaffRouteResponses(caller) ==
    {loans_assign_loan(Db, now, caller, u, b) : u \in UserIds, b \in BookIds}
    \cup {loans_confirm_pickup(Db, now, caller, l) : l \in NamedLoans}
    \cup {loans_return_book(Db, now, caller, l) : l \in NamedLoans}
    \cup {loans_get_all_loans(Db, now, caller, skip, limit) :
            skip \in SkipChoices, limit \in LimitChoices}
    \cup {books_create_book(Db, caller, data) : data \in CreateRequests}
    \cup {books_update_book(Db, caller, b, data) :
            b \in BookIds, data \in UpdateRequests}
    \cup {books_delete_book(Db, caller, b) : b \in BookIds}
    \cup {settings_get_settings(Db, caller)}
    \cup {settings_update_settings(Db, now, caller, upd) : upd \in SettingsRequests}

(* The responses to the requests caller can send to the routes for members *)
MemberRouteResponses(caller) ==
    {loans_reserve_book(Db, now, caller, b) : b \in BookIds}
    \cup {loans_cancel_reservation(Db, now, caller, l) : l \in NamedLoans}

(* Requests by the callers of a given set *)
ReserveBy(callers) ==
    \E c \in callers, b \in BookIds :
        LET r == loans_reserve_book(Db, now, c, b) IN
        /\ r.res = "ok" => r.id \in LoanIds
        /\ Respond(r)

CancelBy(callers) ==
    \E c \in callers, l \in LoanIds :
        Respond(loans_cancel_reservation(Db, now, c, l))

MyLoansBy(callers) ==
    \E c \in callers : Respond(loans_get_my_loans(Db, now, c))

LoanDeskBy(callers) ==
    \E c \in callers :
        \/ \E u \in UserIds, b \in BookIds :
              LET r == loans_assign_loan(Db, now, c, u, b) IN
              /\ r.res = "ok" => r.id \in LoanIds
              /\ Respond(r)
        \/ \E l \in LoanIds : Respond(loans_confirm_pickup(Db, now, c, l))
        \/ \E l \in LoanIds : Respond(loans_return_book(Db, now, c, l))
        \/ \E skip \in SkipChoices, limit \in LimitChoices :
              Respond(loans_get_all_loans(Db, now, c, skip, limit))

CatalogBy(callers) ==
    \E c \in callers :
        \/ \E data \in CreateRequests :
              LET r == books_create_book(Db, c, data) IN
              /\ r.res = "ok" => r.id \in BookIds
              /\ Respond(r)
        \/ \E b \in BookIds, data \in UpdateRequests :
              Respond(books_update_book(Db, c, b, data))
        \/ \E b \in BookIds : Respond(books_delete_book(Db, c, b))

SettingsBy(callers) ==
    \E c \in callers :
        \/ Respond(settings_get_settings(Db, c))
        \/ \E upd \in SettingsRequests :
              Respond(settings_update_settings(Db, now, c, upd))

(* Only members send requests, to every route *)
NextMembers ==
    \/ Tick
    \/ ReserveBy(Members)
    \/ CancelBy(Members)
    \/ MyLoansBy(Members)
    \/ LoanDeskBy(Members)
    \/ CatalogBy(Members)
    \/ SettingsBy(Members)

SpecMembers == Init /\ [][NextMembers]_vars

(* C23: Reserve and CancelReservation run only for callers whose role is   *)
(* MEMBER; AssignLoan, ConfirmPickup, ReturnBook, ListAllLoans, book       *)
(* create, update and delete and settings read and update run only for     *)
(* callers whose role is LIBRARIAN or ADMIN; any other caller gets         *)
(* forbidden and nothing changes. So while only MEMBER callers send        *)
(* requests no loan is ever ACTIVE or RETURNED.                            *)
C23_RoutesCheckRoles ==
    /\ \A c \in DOMAIN users :
          /\ users[c].role # "member" =>
                \A r \in MemberRouteResponses(c) :
                    r.res = "forbidden" /\ r.commits = << >> /\ Final(Db, r) = Db
          /\ users[c].role \notin {"librarian", "admin"} =>
                \A r \in StaffRouteResponses(c) :
                    r.res = "forbidden" /\ r.commits = << >> /\ Final(Db, r) = Db
          /\ users[c].role = "member" =>
                /\ \A b \in BookIds :
                      loans_reserve_book(Db, now, c, b) = reserve_book(Db, now, c, b)
                /\ \A l \in NamedLoans :
                      loans_cancel_reservation(Db, now, c, l)
                         = cancel_reservation(Db, now, c, l)
          /\ users[c].role \in {"librarian", "admin"} =>
                /\ \A l \in NamedLoans :
                      /\ loans_confirm_pickup(Db, now, c, l) = confirm_pickup(Db, now, l)
                      /\ loans_return_book(Db, now, c, l) = return_book(Db, now, l)
                /\ \A u \in UserIds, b \in BookIds :
                      loans_assign_loan(Db, now, c, u, b) = assign_loan(Db, now, u, b)
    /\ \A l \in DOMAIN loans : loans[l].status \notin {"active", "returned"}

C23_Witness ==
    /\ now > 0
    /\ \E l1 \in DOMAIN loans, l2 \in DOMAIN loans :
          /\ loans[l1].status = "cancelled"
          /\ loans[l2].status = "reserved"
          /\ now <= loans[l2].pickup_deadline
          /\ confirm_pickup(Db, now, l2).res = "ok"
          /\ loans_confirm_pickup(Db, now, loans[l2].user_id, l2).res = "forbidden"
    /\ \E b \in DOMAIN books :
          /\ books[b].available_copies > 0
          /\ assign_loan(Db, now, 2, b).res = "ok"
          /\ loans_assign_loan(Db, now, 3, 2, b).res = "forbidden"

MinOf(a, b) == IF a < b THEN a ELSE b

(* What UpdateBook owes the fields of book b, given the request *)
UpdatedAsAsked(b, data, fin) ==
    /\ fin.books[b].isbn = IF data.isbn = Unset THEN books[b].isbn ELSE data.isbn
    /\ fin.books[b].total_copies =
          IF data.total_copies = Unset THEN books[b].total_copies
          ELSE data.total_copies
    /\ fin.books[b].available_copies =
          MinOf(IF data.available_copies = Unset THEN books[b].available_copies
                ELSE data.available_copies,
                fin.books[b].total_copies)
    /\ \A k \in DOMAIN books \ {b} : fin.books[k] = books[k]
    /\ fin.loans = loans

(* UpdateBook clamps whenever the request names one of the two counts *)
UpdateBookClampsNamedCounts ==
    \A b \in DOMAIN books, data \in UpdateRequests :
        LET r == update_book(Db, b, data)
            fin == Final(Db, r)
        IN
        (/\ r.res = "ok"
         /\ \/ data.total_copies # Unset
            \/ data.available_copies # Unset
            \/ books[b].available_copies <= books[b].total_copies) =>
            /\ fin.books[b].available_copies <= fin.books[b].total_copies
            /\ UpdatedAsAsked(b, data, fin)

(* C24: after any UpdateBook the updated book has available_copies <=      *)
(* total_copies: a total_copies lowered below available_copies, or an      *)
(* available_copies set above total_copies, is clamped to total_copies;    *)
(* fields that the request does not supply keep their value.               *)
C24_UpdateBookClamps ==
    \A b \in DOMAIN books, data \in UpdateRequests :
        LET r == update_book(Db, b, data)
            fin == Final(Db, r)
        IN
        r.res = "ok" =>
            /\ fin.books[b].available_copies <= fin.books[b].total_copies
            /\ UpdatedAsAsked(b, data, fin)

(* C25: is_available is never stale: in every reachable state, for every   *)
(* book, is_available is true exactly when available_copies > 0, also      *)
(* after CreateBook with available_copies = 0 and after UpdateBook.        *)
C25_IsAvailableNeverStale ==
    \A b \in DOMAIN books :
        books[b].is_available <=> books[b].available_copies > 0

(* The lifecycle handlers do recompute the flag of the book they touch *)
LifecycleRecomputesFlag ==
    \A r \in CopyMovingResponses :
        r.res \in {"ok", "expired"} =>
            \A b \in DOMAIN books :
                books[b].available_copies # Final(Db, r).books[b].available_copies =>
                    (Final(Db, r).books[b].is_available
                        <=> Final(Db, r).books[b].available_copies > 0)

---------------------------------------------------------------------------
(* A catalog of two titles and one patron. The clock and the accounts are  *)
(* as before; the settings row is one that an UpdateSettings has left.     *)

Shelf == {1, 2}

ShelfIsbns == {1, 2}

ShelfCreateRequests ==
    [isbn : ShelfIsbns, total_copies : 1 .. MaxCopies,
     available_copies : 0 .. MaxCopies]

(* Partial updates: of the ISBN alone, or of the counts *)
ShelfUpdateRequests ==
    [isbn : ShelfIsbns, total_copies : {Unset}, available_copies : {Unset}]
    \cup [isbn : {Unset}, total_copies : (1 .. MaxCopies) \cup {Unset},
          available_copies : (0 .. MaxCopies) \cup {Unset}]

(* Requests arrive at the start and at the horizon *)
ShelfTick ==
    /\ now < MaxTime
    /\ now' = MaxTime
    /\ UNCHANGED <<users, books, loans, settings, sessions>>

ShortLoans ==
    [pickup_window_days |-> Min(PickupChoices),
     standard_loan_days |-> Min(LoanDayChoices),
     daily_fine_amount |-> Max(RateChoices)]

Patron == Min({u \in DOMAIN InitialUsers : InitialUsers[u].role = "member"})

InitShelf ==
    /\ now = 0
    /\ users = InitialUsers
    /\ books = << >>
    /\ loans = << >>
    /\ settings = <<ShortLoans>>
    /\ sessions = << >>

ShelfCreateBook ==
    /\ StaffOnDuty
    /\ \E data \in ShelfCreateRequests :
        LET r == create_book(Db, data) IN
        /\ r.res = "ok" => r.id \in Shelf
        /\ Respond(r)

ShelfUpdateBook ==
    /\ StaffOnDuty
    /\ \E b \in Shelf, data \in ShelfUpdateRequests :
        Respond(update_book(Db, b, data))

ShelfDeleteBook ==
    /\ StaffOnDuty
    /\ \E b \in Shelf : Respond(delete_book(Db, b))

ShelfReserve ==
    \E b \in Shelf :
        LET r == reserve_book(Db, now, Patron, b) IN
        /\ r.res = "ok" => r.id \in LoanIds
        /\ Respond(r)

ShelfAssignLoan ==
    /\ StaffOnDuty
    /\ \E b \in Shelf :
        LET r == assign_loan(Db, now, Patron, b) IN
        /\ r.res = "ok" => r.id \in LoanIds
        /\ Respond(r)

NextShelf ==
    \/ ShelfTick
    \/ ShelfCreateBook
    \/ ShelfUpdateBook
    \/ ShelfDeleteBook
    \/ ShelfReserve
    \/ ShelfAssignLoan
    \/ ReturnBook
    \/ CancelReservation
    \/ ListAllLoans

SpecShelf == InitShelf /\ [][NextShelf]_vars

(* C26: CreateBook with an ISBN that a book already has fails with the     *)
(* conflict error and leaves the catalog unchanged; otherwise it stores    *)
(* available_copies = min(requested available_copies, total_copies). In    *)
(* every reachable state no two books share an ISBN.                       *)
C26_CreateBookRejectsDuplicateIsbn ==
    /\ \A data \in ShelfCreateRequests :
          LET r == create_book(Db, data)
              fin == Final(Db, r)
          IN
          IF \E b \in DOMAIN books : books[b].isbn = data.isbn
          THEN /\ r.res = "conflict"
               /\ r.commits = << >>
               /\ fin.books = books
          ELSE /\ r.res = "ok"
               /\ r.id \notin DOMAIN books
               /\ DOMAIN fin.books = DOMAIN books \cup {r.id}
               /\ \A b \in DOMAIN books : fin.books[b] = books[b]
               /\ fin.books[r.id].isbn = data.isbn
               /\ fin.books[r.id].total_copies = data.total_copies
               /\ fin.books[r.id].available_copies =
                     MinOf(data.available_copies, data.total_copies)
               /\ fin.loans = loans
    /\ \A b1 \in DOMAIN books, b2 \in DOMAIN books :
          b1 # b2 => books[b1].isbn # books[b2].isbn

C26_Witness ==
    /\ DOMAIN books = Shelf
    /\ loans = << >>
    /\ \A data \in ShelfCreateRequests : create_book(Db, data).res = "conflict"
    /\ \E b \in DOMAIN books :
          /\ books[b].isbn # b
          /\ books[b].total_copies = 1
          /\ books[b].available_copies = 1

(* C27: DeleteBook on an existing book removes the book together with      *)
(* every loan that references it, whatever the loan's status, and          *)
(* DeleteBook on a missing book fails with not-found; in every reachable   *)
(* state every loan references a book that exists.                         *)
C27_DeleteBookCascades ==
    /\ \A b \in Shelf :
          LET r == delete_book(Db, b)
              fin == Final(Db, r)
          IN
          IF b \notin DOMAIN books
          THEN r.res = "not_found" /\ r.commits = << >> /\ fin = Db
          ELSE /\ r.res = "ok"
               /\ DOMAIN fin.books = DOMAIN books \ {b}
               /\ \A k \in DOMAIN fin.books : fin.books[k] = books[k]
               /\ DOMAIN fin.loans = {l \in DOMAIN loans : loans[l].book_id # b}
               /\ \A l \in DOMAIN fin.loans : fin.loans[l] = loans[l]
               /\ fin.users = users
               /\ fin.settings = settings
    /\ \A l \in DOMAIN loans : loans[l].book_id \in DOMAIN books

C27_Witness ==
    /\ DOMAIN books = {Max(Shelf)}
    /\ DOMAIN loans = {Max(LoanIds)}
    /\ loans[Max(LoanIds)].status = "overdue"
    /\ loans[Max(LoanIds)].book_id = Max(Shelf)

(* The read of GET /api/settings as a response *)
SettingsRead ==
    [res |-> "ok", commits |-> SettingsCommit(get_settings(Db)), id |-> 0]

(* C28: when no settings record exists, the first read, directly or inside *)
(* a lifecycle operation, creates exactly one record with                  *)
(* pickup_window_days = 2, standard_loan_days = 30 and daily_fine_amount = *)
(* 0.1; there is at most one settings record in every reachable state, and *)
(* later reads and updates use that record.                                *)
C28_OneSettingsRecord ==
    /\ Len(settings) <= 1
    /\ settings = << >> =>
          /\ Final(Db, SettingsRead).settings =
                <<[pickup_window_days |-> 2, standard_loan_days |-> 30,
                   daily_fine_amount |-> 10]>>
          /\ \A r \in ReserveResponses \cup AssignResponses \cup PickupResponses :
                r.res = "ok" =>
                    Final(Db, r).settings =
                        <<[pickup_window_days |-> 2, standard_loan_days |-> 30,
                           daily_fine_amount |-> 10]>>
          /\ \A upd \in SettingsRequests :
                Final(Db, update_settings(Db, now, upd)).settings = <<upd>>
    /\ settings # << >> =>
          /\ \A r \in AllResponses \cup Listings \cup {SettingsRead} :
                /\ Len(Final(Db, r).settings) = 1
                /\ \A i \in 1 .. Len(r.commits) : Len(r.commits[i].settings) = 1
          /\ \A upd \in SettingsRequests :
                Final(Db, update_settings(Db, now, upd)).settings = <<upd>>

C28_Witness ==
    /\ settings = <<DefaultSettings>>
    /\ \E l \in DOMAIN loans :
          /\ loans[l].status = "active"
          /\ loans[l].pickup_deadline = loans[l].reservation_date + Days(2)
          /\ loans[l].due_date = loans[l].start_date + Days(30)

(* Requests with every field at the edge of its bounds *)
EdgeSettingsRequests ==
    [pickup_window_days : {1, 14}, standard_loan_days : {1, 120},
     daily_fine_amount : {0, 10000}]

WithinSettingsBounds(row) ==
    /\ row.pickup_window_days \in 1 .. 14
    /\ row.standard_loan_days \in 1 .. 120
    /\ row.daily_fine_amount \in 0 .. 10000

(* C29: UpdateSettings rejects with a validation error, changing neither   *)
(* the settings nor any loan, every request whose pickup_window_days is    *)
(* outside 1..14, whose standard_loan_days is outside 1..120 or whose      *)
(* daily_fine_amount is outside 0.0..100.0; in every reachable state the   *)
(* stored settings lie within these bounds.                                *)
C29_SettingsWithinBounds ==
    /\ \A upd \in InvalidSettingsRequests :
          LET r == update_settings(Db, now, upd) IN
          /\ ~WithinSettingsBounds(upd)
          /\ r.res = "validation_error"
          /\ r.commits = << >>
          /\ Final(Db, r).settings = settings
          /\ Final(Db, r).loans = loans
    /\ \A upd \in SettingsRequests \cup EdgeSettingsRequests :
          /\ WithinSettingsBounds(upd)
          /\ update_settings(Db, now, upd).res = "ok"
          /\ Final(Db, update_settings(Db, now, upd)).settings = <<upd>>
    /\ \A i \in 1 .. Len(settings) : WithinSettingsBounds(settings[i])

C29_Witness ==
    /\ settings # << >>
    /\ settings[1].daily_fine_amount = 0
    /\ \E l \in DOMAIN loans :
          /\ loans[l].status = "overdue"
          /\ loans[l].fine_amount = 0

---------------------------------------------------------------------------
(* api/auth.py and api/admin.py: accounts. Here a user row also carries    *)
(* its username and its email; the database starts with the default admin. *)

AccountIds == 1 .. 4

Usernames == {"admin", "ann", "bob", "cat"}

Emails == {"ann@lib", "bob@lib", "cat@lib"}

(* role "none" is a request that leaves the role out or sends null *)
RegisterRequests ==
    [username : Usernames, email : Emails,
     role : {"none", "member", "librarian", "admin"}]

DefaultAdmin ==
    [role |-> "admin", is_banned |-> FALSE, username |-> "admin",
     email |-> "admin@example.com"]

(* UserFactory.create_user: the creator is chosen by the role, and sets it *)
UserFactoryRole(role) == IF role = "librarian" THEN "librarian" ELSE "member"

NameOrEmailTaken(d, data) ==
    \E u \in DOMAIN d.users :
        d.users[u].username = data.username \/ d.users[u].email = data.email

(* register that neither checks nor overwrites the role asked for *)
register_any_role(d, data) ==
    IF NameOrEmailTaken(d, data) THEN Failure("bad_request")
    ELSE LET id == NextId(DOMAIN d.users)
             user == [role |-> UserFactoryRole(data.role), is_banned |-> FALSE,
                      username |-> data.username, email |-> data.email]
         IN [res |-> "ok", commits |-> <<[d EXCEPT !.users = (id :> user) @@ @]>>,
             id |-> id]

register(d, data) ==
    IF data.role # "none" /\ data.role # "member" THEN Failure("forbidden")
    ELSE IF NameOrEmailTaken(d, data) THEN Failure("bad_request")
    ELSE LET id == NextId(DOMAIN d.users)
             user == [role |-> UserFactoryRole("member"), is_banned |-> FALSE,
                      username |-> data.username, email |-> data.email]
         IN [res |-> "ok", commits |-> <<[d EXCEPT !.users = (id :> user) @@ @]>>,
             id |-> id]

promote_user_to_librarian(d, user_id) ==
    IF user_id \notin DOMAIN d.users THEN Failure("not_found")
    ELSE IF d.users[user_id].role = "admin" THEN Failure("bad_request")
    ELSE IF d.users[user_id].role = "librarian" THEN Failure("bad_request")
    ELSE [res |-> "ok",
          commits |-> <<[d EXCEPT !.users[user_id].role = "librarian"]>>,
          id |-> user_id]

demote_librarian_to_member(d, user_id) ==
    IF user_id \notin DOMAIN d.users THEN Failure("not_found")
    ELSE IF d.users[user_id].role = "admin" THEN Failure("bad_request")
    ELSE IF d.users[user_id].role # "librarian" THEN Failure("bad_request")
    ELSE [res |-> "ok",
          commits |-> <<[d EXCEPT !.users[user_id].role = "member"]>>,
          id |-> user_id]

InitAccounts ==
    /\ now = 0
    /\ users = (1 :> DefaultAdmin)
    /\ books = << >>
    /\ loans = << >>
    /\ settings = << >>
    /\ sessions = << >>

Register ==
    \E data \in RegisterRequests :
        LET r == register(Db, data) IN
        /\ r.res = "ok" => r.id \in AccountIds
        /\ Respond(r)

PromoteUser ==
    /\ AdminOnDuty
    /\ \E u \in AccountIds : Respond(promote_user_to_librarian(Db, u))

DemoteUser ==
    /\ AdminOnDuty
    /\ \E u \in AccountIds : Respond(demote_librarian_to_member(Db, u))

RemoveUser ==
    /\ AdminOnDuty
    /\ \E u \in AccountIds : Respond(delete_user(Db, u))

NextAccounts ==
    \/ Register
    \/ PromoteUser
    \/ DemoteUser
    \/ RemoveUser

SpecAccounts == InitAccounts /\ [][NextAccounts]_vars

(* C30: registration creates only MEMBER accounts: a register request that *)
(* asks for role LIBRARIAN or ADMIN fails with forbidden and creates no    *)
(* user, a request whose username or email is already taken fails and      *)
(* creates no user, and every user created by register has role MEMBER.    *)
C30_RegisterCreatesMembersOnly ==
    \A data \in RegisterRequests :
        LET r == register(Db, data)
            fin == Final(Db, r)
            taken == \E u \in DOMAIN users :
                        users[u].username = data.username
                        \/ users[u].email = data.email
        IN
        /\ data.role \in {"librarian", "admin"} =>
              r.res = "forbidden" /\ r.commits = << >> /\ fin.users = users
        /\ taken => r.res # "ok" /\ r.commits = << >> /\ fin.users = users
        /\ (data.role \in {"none", "member"} /\ ~taken) => r.res = "ok"
        /\ r.res = "ok" =>
              /\ r.id \notin DOMAIN users
              /\ DOMAIN fin.users = DOMAIN users \cup {r.id}
              /\ \A u \in DOMAIN users : fin.users[u] = users[u]
              /\ fin.users[r.id].role = "member"
              /\ fin.users[r.id].username = data.username
              /\ fin.users[r.id].email = data.email

C30_Witness ==
    /\ DOMAIN users = AccountIds
    /\ \E u \in DOMAIN users : users[u].role = "librarian"
    /\ \E u \in DOMAIN users :
          /\ users[u].role = "member"
          /\ users[u].username = "cat"
          /\ users[u].email = "ann@lib"
    /\ \A data \in RegisterRequests : register(Db, data).res # "ok"

---------------------------------------------------------------------------
(* services/user_factory.py: the creators, called directly *)

(* _create_base_user: the row takes the role the data carries, MEMBER if   *)
(* it carries none; users.username and users.email are unique columns      *)
create_base_user(d, data) ==
    IF NameOrEmailTaken(d, data) THEN Failure("error")
    ELSE LET id == NextId(DOMAIN d.users)
             user == [role |-> IF data.role = "none" THEN "member" ELSE data.role,
                      is_banned |-> FALSE,
                      username |-> data.username, email |-> data.email]
         IN [res |-> "ok", commits |-> <<[d EXCEPT !.users = (id :> user) @@ @]>>,
             id |-> id]

LibrarianCreator(d, data) ==
    create_base_user(d, [data EXCEPT !.role = "librarian"])

(* MemberCreator that leaves the role of its input alone *)
MemberCreatorKeepsRole(d, data) == create_base_user(d, data)

MemberCreator(d, data) ==
    create_base_user(d, [data EXCEPT !.role = "member"])

(* UserFactory.create_user *)
create_user(d, data) ==
    LET role == IF data.role = "none" THEN "member" ELSE data.role IN
    IF role = "librarian" THEN LibrarianCreator(d, data)
    ELSE MemberCreator(d, data)

FactoryCreateUser ==
    \E data \in RegisterRequests :
        LET r == create_user(Db, data) IN
        /\ r.res = "ok" => r.id \in AccountIds
        /\ Respond(r)

CreateLibrarian ==
    \E data \in RegisterRequests :
        LET r == LibrarianCreator(Db, data) IN
        /\ r.res = "ok" => r.id \in AccountIds
        /\ Respond(r)

CreateMember ==
    \E data \in RegisterRequests :
        LET r == MemberCreator(Db, data) IN
        /\ r.res = "ok" => r.id \in AccountIds
        /\ Respond(r)

NextFactory ==
    \/ FactoryCreateUser
    \/ CreateLibrarian
    \/ CreateMember
    \/ RemoveUser

SpecFactory == InitAccounts /\ [][NextFactory]_vars

(* The role of the user that response r created *)
CreatedRole(r) == Final(Db, r).users[r.id].role

(* C31: UserFactory.create_user creates a LIBRARIAN exactly when the       *)
(* requested role is LIBRARIAN and a MEMBER for every other requested role *)
(* (MEMBER, ADMIN or none); LibrarianCreator always yields LIBRARIAN and   *)
(* MemberCreator always yields MEMBER whatever role the input carries; the *)
(* factory never creates an ADMIN.                                         *)
C31_FactoryRoles ==
    /\ \A data \in RegisterRequests :
          ~(\E u \in DOMAIN users : users[u].username = data.username
                                    \/ users[u].email = data.email) =>
              /\ create_user(Db, data).res = "ok"
              /\ CreatedRole(create_user(Db, data)) = "librarian"
                    <=> data.role = "librarian"
              /\ data.role \in {"member", "admin", "none"} =>
                    CreatedRole(create_user(Db, data)) = "member"
              /\ CreatedRole(LibrarianCreator(Db, data)) = "librarian"
              /\ CreatedRole(MemberCreator(Db, data)) = "member"
              /\ Final(Db, create_user(Db, data)).users[create_user(Db, data).id].username
                    = data.username
    /\ \A u \in DOMAIN users : users[u].role = "admin" <=> u = 1

C31_Witness ==
    /\ DOMAIN users = AccountIds
    /\ Cardinality({u \in DOMAIN users : users[u].role = "librarian"}) = 2
    /\ Cardinality({u \in DOMAIN users : users[u].role = "member"}) = 1

(* Copies on the shelf plus copies held by loans, for book b of database d *)
CopiesAccountedFor(d, b) ==
    d.books[b].available_copies + Cardinality(HoldingLoans(d, b))

DbNext == [users |-> users', books |-> books', loans |-> loans',
           settings |-> settings']

SumIsTotal ==
    \A b \in DOMAIN books : CopiesAccountedFor(Db, b) = books[b].total_copies

SumPreserved ==
    \A b \in DOMAIN books :
        /\ b \in DOMAIN books'
        /\ CopiesAccountedFor(DbNext, b) = CopiesAccountedFor(Db, b)

(* A step that edits neither the catalog nor the accounts *)
LifecycleStep ==
    /\ users' = users
    /\ DOMAIN books' = DOMAIN books
    /\ books' = books \/ loans' # loans

(* On edited catalogs too, the steps of the lifecycle preserve the sum *)
LifecycleStepsPreserveSum == [][LifecycleStep => SumPreserved]_vars

(* C32: each of Reserve, AssignLoan, ConfirmPickup (both outcomes),        *)
(* CancelReservation, ReturnBook, the listing sweep and UpdateSettings     *)
(* preserves, for every book, available_copies plus the number of its      *)
(* loans that are RESERVED, ACTIVE or OVERDUE; on a book created with      *)
(* available_copies = total_copies and never edited the sum stays equal to *)
(* total_copies.                                                           *)
C32_LifecyclePreservesCopySum ==
    /\ []SumIsTotal
    /\ [][SumPreserved]_vars

C32_Witness ==
    /\ now = MaxTime
    /\ \E l1 \in DOMAIN loans, l2 \in DOMAIN loans :
          /\ loans[l1].status = "reserved"
          /\ loans[l2].status = "overdue"
          /\ loans[l1].book_id = loans[l2].book_id
          /\ books[loans[l1].book_id].available_copies = 0
          /\ books[loans[l1].book_id].total_copies = 2

(* The settings row as return_book and the sweep read it *)
ReadSettings == get_settings(Db).s.settings[1]

FineAfterReturn(l) == Final(Db, return_book(Db, now, l)).loans[l].fine_amount

LoanAfterSweep(l) ==
    Final(Db, get_user_loans(Db, now, loans[l].user_id)).loans[l]

(* The loan after an UpdateSettings that sets the rate the others read *)
LoanAfterRecalc(l) == Final(Db, update_settings(Db, now, ReadSettings)).loans[l]

SampleRates == RateChoices \cup {DefaultDailyFine, 10000}

(* C33: for the same loan, the same instant and the same                   *)
(* daily_fine_amount, ReturnBook, the listing sweep and the UpdateSettings *)
(* recalculation produce the same fine_amount, and they agree on whether   *)
(* the loan counts as late (now > due_date).                               *)
C33_FineComputationsAgree ==
    \A l \in DOMAIN loans :
        loans[l].status \in {"active", "overdue"} =>
            LET loan == loans[l]
                late == now > loan.due_date
            IN /\ IsLate(loan.due_date, now) = late
               /\ PastDue(loan, now) = late
               /\ (loan.due_date # None /\ loan.due_date < now) = late
               /\ (LoanAfterSweep(l).status = "overdue") = late
               /\ (LoanAfterRecalc(l).status = "overdue") = late
               /\ FineAfterReturn(l) = LoanAfterSweep(l).fine_amount
               /\ FineAfterReturn(l) = LoanAfterRecalc(l).fine_amount
               /\ late =>
                    /\ FineAfterReturn(l)
                          = DaysLate(now, loan.due_date) * ReadSettings.daily_fine_amount
                    /\ \A rate \in SampleRates :
                          /\ ReturnFine(now, loan.due_date, rate, loan.fine_amount)
                                = SweepFine(now, loan.due_date, rate, loan.fine_amount)
                          /\ ReturnFine(now, loan.due_date, rate, loan.fine_amount)
                                = RecalcFine(now, loan.due_date, rate, loan.fine_amount)

(* An ACTIVE loan late on the day of its due date: all three charge one day *)
C33_Witness ==
    \E l \in DOMAIN loans :
        /\ loans[l].status = "active"
        /\ loans[l].fine_amount = 0
        /\ now > loans[l].due_date
        /\ CalendarDays(now, loans[l].due_date) = 0
        /\ ReadSettings.daily_fine_amount = 75
        /\ FineAfterReturn(l) = 75
        /\ LoanAfterSweep(l).fine_amount = 75
        /\ LoanAfterRecalc(l).fine_amount = 75

FinesFollowLateness ==
    \A l \in DOMAIN loans :
        LET loan == loans[l] IN
        /\ loan.status \in {"reserved", "active", "expired", "cancelled"}
              => loan.fine_amount = 0
        /\ loan.status = "overdue"
              => loan.due_date # None /\ now > loan.due_date
        /\ loan.status = "returned" /\ loan.fine_amount # 0
              => loan.due_date # None /\ loan.returned_at > loan.due_date

FineChangesOnlyWhenLate ==
    \A l \in DOMAIN loans \cap DOMAIN loans' :
        /\ loans'[l].fine_amount # loans[l].fine_amount
              => /\ loans[l].status \in {"active", "overdue"}
                 /\ loans[l].due_date # None
                 /\ now > loans[l].due_date
                 /\ loans'[l].status \in {"overdue", "returned"}
        /\ (/\ loans[l].status # "returned"
            /\ loans'[l].status = "returned"
            /\ loans'[l].fine_amount # 0)
              => \/ loans[l].status = "overdue"
                 \/ loans'[l].returned_at > loans[l].due_date

(* C34: fine_amount accrues only through lateness: in every reachable      *)
(* state a RESERVED, ACTIVE, EXPIRED or CANCELLED loan has fine_amount 0,  *)
(* a loan is OVERDUE only if now > its due_date, and a RETURNED loan has   *)
(* a fine_amount other than 0 only if it was OVERDUE or was returned after *)
(* its due_date.                                                           *)
C34_FinesOnlyThroughLateness ==
    /\ []FinesFollowLateness
    /\ [][FineChangesOnlyWhenLate]_vars

C34_Witness ==
    \E l1 \in DOMAIN loans, l2 \in DOMAIN loans :
        /\ loans[l1].status = "returned"
        /\ loans[l1].fine_amount # 0
        /\ loans[l1].returned_at > loans[l1].due_date
        /\ loans[l2].status = "overdue"
        /\ loans[l2].fine_amount # 0
        /\ now > loans[l2].due_date

(* What a step leaves of the loans that exist before it *)
LoanFrame ==
    \A l \in DOMAIN loans :
        /\ l \in DOMAIN loans'
        /\ loans'[l].user_id = loans[l].user_id
        /\ loans'[l].book_id = loans[l].book_id
        /\ loans'[l].reservation_date = loans[l].reservation_date
        /\ loans'[l].pickup_deadline = loans[l].pickup_deadline
        /\ loans[l].start_date # None => loans'[l].start_date = loans[l].start_date
        /\ loans[l].due_date # None => loans'[l].due_date = loans[l].due_date

LaterSettings ==
    {[pickup_window_days |-> 14, standard_loan_days |-> 120, daily_fine_amount |-> 75],
     [pickup_window_days |-> 1, standard_loan_days |-> 1, daily_fine_amount |-> HalfRate]}

(* update_settings leaves the dates of the loans there are, and the loans *)
(* reserved or picked up after it get the new window and the new length   *)
SettingsApplyToLaterLoans ==
    \A u \in LaterSettings :
        LET d1 == Final(Db, update_settings(Db, now, u)) IN
        /\ \A l \in DOMAIN loans :
              /\ d1.loans[l].pickup_deadline = loans[l].pickup_deadline
              /\ d1.loans[l].start_date = loans[l].start_date
              /\ d1.loans[l].due_date = loans[l].due_date
        /\ \A m \in Members, b \in BookIds :
              LET r == reserve_book(d1, now, m, b) IN
              r.res = "ok" =>
                  Final(d1, r).loans[r.id].pickup_deadline
                      = now + Days(u.pickup_window_days)
        /\ \A l \in DOMAIN loans :
              LET r == confirm_pickup(d1, now, l) IN
              r.res = "ok" =>
                  /\ Final(d1, r).loans[l].start_date = now
                  /\ Final(d1, r).loans[l].due_date
                        = now + Days(u.standard_loan_days)
                  /\ Final(d1, r).loans[l].pickup_deadline
                        = loans[l].pickup_deadline

(* C35: a loan's user, book, reservation_date and pickup_deadline never    *)
(* change after creation, and its start_date and due_date never change     *)
(* once set by ConfirmPickup or AssignLoan; an UpdateSettings that changes *)
(* pickup_window_days or standard_loan_days alters no existing loan's      *)
(* pickup_deadline or due_date, it only affects the loans created or       *)
(* picked up afterwards.                                                   *)
C35_LoanDatesAreFixed ==
    /\ [][LoanFrame]_vars
    /\ []SettingsApplyToLaterLoans

(* A reservation and a loan that keep the window and the length of the   *)
(* settings they were made under, after the settings have been changed   *)
C35_Witness ==
    /\ settings # << >>
    /\ settings[1].pickup_window_days = 1
    /\ settings[1].standard_loan_days = 1
    /\ \E l1 \in DOMAIN loans, l2 \in DOMAIN loans :
          /\ loans[l1].status = "reserved"
          /\ loans[l1].pickup_deadline
                = loans[l1].reservation_date + Days(DefaultPickupWindowDays)
          /\ loans[l2].status \in {"active", "overdue"}
          /\ loans[l2].due_date
                = loans[l2].start_date + Days(DefaultStandardLoanDays)

TimestampsFollowStatus ==
    \A l \in DOMAIN loans :
        LET loan == loans[l] IN
        /\ loan.status = "reserved"
              => /\ loan.pickup_deadline # None
                 /\ loan.start_date = None
                 /\ loan.due_date = None
                 /\ loan.returned_at = None
                 /\ loan.canceled_at = None
        /\ loan.status \in {"active", "overdue"}
              => /\ loan.start_date # None
                 /\ loan.due_date # None
                 /\ \E n \in 1 .. 120 : loan.due_date = loan.start_date + Days(n)
                 /\ loan.returned_at = None
        /\ (loan.returned_at # None) = (loan.status = "returned")
        /\ (loan.canceled_at # None) = (loan.status = "cancelled")

(* The step that hands a book out, by pickup or by a direct loan, dates it *)
(* with the loan length of the settings row it reads; a direct loan has no *)
(* pickup deadline, and never gets one                                     *)
HandOverSetsDates ==
    \A l \in DOMAIN loans' :
        LET new == l \notin DOMAIN loans IN
        /\ (/\ loans'[l].status = "active"
            /\ new \/ loans[l].status = "reserved")
              => /\ settings' # << >>
                 /\ settings # << >>
                      => settings'[1].standard_loan_days = settings[1].standard_loan_days
                 /\ loans'[l].start_date = now
                 /\ loans'[l].due_date
                       = now + Days(settings'[1].standard_loan_days)
        /\ new /\ loans'[l].status = "active"
              => loans'[l].pickup_deadline = None
        /\ new /\ loans'[l].status = "reserved"
              => loans'[l].pickup_deadline # None
        /\ new => loans'[l].status \in {"active", "reserved"}
        /\ ~new /\ loans[l].pickup_deadline = None
              => loans'[l].pickup_deadline = None

(* C36: in every reachable state the lifecycle timestamps agree with the   *)
(* status: a RESERVED loan has pickup_deadline set and start_date,         *)
(* due_date, returned_at, canceled_at unset; an ACTIVE or OVERDUE loan has *)
(* start_date and due_date set, with due_date = start_date + the           *)
(* standard_loan_days in force at pickup, and returned_at unset;           *)
(* returned_at is set exactly when the status is RETURNED and canceled_at  *)
(* exactly when it is CANCELLED; a loan created by AssignLoan has no       *)
(* pickup_deadline.                                                        *)
C36_TimestampsAgreeWithStatus ==
    /\ []TimestampsFollowStatus
    /\ [][HandOverSetsDates]_vars

(* One loan handed out directly under the default length and one picked *)
(* up under a one-day length                                             *)
C36_Witness ==
    \E l1 \in DOMAIN loans, l2 \in DOMAIN loans :
        /\ loans[l1].status \in {"active", "overdue"}
        /\ loans[l1].pickup_deadline = None
        /\ loans[l1].due_date = loans[l1].start_date + Days(DefaultStandardLoanDays)
        /\ loans[l2].status \in {"active", "overdue"}
        /\ loans[l2].pickup_deadline # None
        /\ loans[l2].due_date = loans[l2].start_date + Days(1)

---------------------------------------------------------------------------
(* User management over the accounts: roles, bans and deletions *)

BanAccount ==
    /\ StaffOnDuty
    /\ \E u \in AccountIds : Respond(ban_user(Db, u))

UnbanAccount ==
    /\ StaffOnDuty
    /\ \E u \in AccountIds : Respond(unban_user(Db, u))

NextAdmins ==
    \/ Register
    \/ PromoteUser
    \/ DemoteUser
    \/ RemoveUser
    \/ BanAccount
    \/ UnbanAccount

SpecAdmins == InitAccounts /\ [][NextAdmins]_vars

Admins(us) == {u \in DOMAIN us : us[u].role = "admin"}

(* The responses of the five requests when they name user u *)
ManagementResponses(u) ==
    {promote_user_to_librarian(Db, u), demote_librarian_to_member(Db, u),
     ban_user(Db, u), unban_user(Db, u), delete_user(Db, u)}

AdminsUntouched ==
    /\ Admins(users) = {1}
    /\ users[1] = DefaultAdmin
    /\ \A u \in Admins(users) :
          /\ \A r \in ManagementResponses(u) : Final(Db, r).users = users
          /\ promote_user_to_librarian(Db, u).res = "bad_request"
          /\ demote_librarian_to_member(Db, u).res = "bad_request"
          /\ ban_user(Db, u).res = "bad_request"
          /\ delete_user(Db, u).res = "bad_request"
    /\ \A u \in AccountIds :
          \A r \in ManagementResponses(u) :
              Admins(Final(Db, r).users) = Admins(users)

RoleChangesAreLegal ==
    /\ Admins(users') = Admins(users)
    /\ \A u \in Admins(users) : users'[u] = users[u]
    /\ \A u \in DOMAIN users \cap DOMAIN users' :
          users'[u].role # users[u].role
              => \/ /\ users[u].role = "member"
                    /\ users'[u].role = "librarian"
                    /\ users' = Final(Db, promote_user_to_librarian(Db, u)).users
                 \/ /\ users[u].role = "librarian"
                    /\ users'[u].role = "member"
                    /\ users' = Final(Db, demote_librarian_to_member(Db, u)).users

(* C37: no sequence of promote, demote, ban, unban and delete-user         *)
(* requests changes the role of an ADMIN user, sets is_banned on an ADMIN  *)
(* user or deletes an ADMIN user; promote changes a role only from MEMBER  *)
(* to LIBRARIAN and demote only from LIBRARIAN to MEMBER, so the set of    *)
(* ADMIN users is constant and no request creates a new ADMIN.             *)
C37_AdminsAreUntouchable ==
    /\ []AdminsUntouched
    /\ [][RoleChangesAreLegal]_vars

(* The admin as created, beside a librarian it promoted and a banned member *)
C37_Witness ==
    /\ users[1] = DefaultAdmin
    /\ \E u \in DOMAIN users, v \in DOMAIN users :
          /\ users[u].role = "librarian"
          /\ users[v].role = "member"
          /\ users[v].is_banned
          /\ promote_user_to_librarian(Db, 1).res = "bad_request"
          /\ ban_user(Db, 1).res = "bad_request"

====
